---- MODULE Spec2Model ----
(***************************************************************************)
(* A model of DbAdapter (freefeed-server): the mapping of accounts, posts, *)
(* comments, attachments and timelines onto the commands of a key-value    *)
(* store (hashes, plain values, sorted sets).                               *)
(*                                                                         *)
(* The store is the variable db, a function from key strings to typed      *)
(* values.  Every handler of the adapter is one action; it records what    *)
(* it was called with and what it answered in last, and the store as it    *)
(* was when the call started in pre.  Calls follow one another: the caller *)
(* awaits the answer of a call (AwaitAnswer) before it makes the next.     *)
(***************************************************************************)
EXTENDS Integers, Sequences, FiniteSets, TLC

VARIABLES
    db,                  \* the store: key -> typed value
    pre,                 \* the store when the call in last started
    last,                \* the call made last and its answer
    discussionsCreated,  \* per account, the createUserDiscussionsTimeline calls that succeeded
    calls,               \* the calls of record handlers made so far
    tasks                \* per client, the call it has under way, command by command

vars == <<db, pre, last, discussionsCreated, calls, tasks>>

(***************************************************************************)
(* Bounds of the model.                                                    *)
(***************************************************************************)
\* scores (times) run over 0..MaxScore
MaxScore == 1
\* longest id list given to a batch read
MaxBatch == 3
\* how many calls a run of the record handlers makes
MaxCalls == 3
\* longest comment log of a post
MaxList == 3

(***************************************************************************)
(* JavaScript values: strings, numbers, null, plain objects.               *)
(***************************************************************************)
Str(s) == [str |-> s]

Num(n) == [num |-> n]

Null == [null |-> TRUE]

Undefined == [undefined |-> TRUE]

Bool(b) == [bool |-> b]

\* what a condition or the left side of && takes for true
truthy(v) ==
    IF DOMAIN v = {"str"} THEN v.str # ""
    ELSE IF DOMAIN v = {"num"} THEN v.num # 0
    ELSE IF DOMAIN v = {"bool"} THEN v.bool
    ELSE FALSE

\* an array, its elements in order
Array(elements) == [array |-> elements]

EmptyObject == [f \in {} |-> Null]

isString(v) == DOMAIN v = {"str"}

\* what the store client writes on the wire for an argument: every value
\* travels, and is stored, as a string
toWire(v) ==
    IF isString(v) THEN v.str
    ELSE IF DOMAIN v = {"num"} THEN ToString(v.num)
    ELSE IF DOMAIN v = {"null"} THEN "null"
    ELSE "undefined"

\* payload[field], undefined when the payload has no such field
Field(payload, f) == IF f \in DOMAIN payload THEN payload[f] ELSE Undefined

UpperCase == "ABCDEFGHIJKLMNOPQRSTUVWXYZ"

LowerCase == "abcdefghijklmnopqrstuvwxyz"

LowerChar(c) ==
    IF \E i \in 1..Len(UpperCase) : SubSeq(UpperCase, i, i) = c
    THEN LET i == CHOOSE j \in 1..Len(UpperCase) : SubSeq(UpperCase, j, j) = c
         IN  SubSeq(LowerCase, i, i)
    ELSE c

RECURSIVE LowerString(_)
LowerString(s) ==
    IF Len(s) = 0 THEN ""
    ELSE LowerChar(SubSeq(s, 1, 1)) \o LowerString(SubSeq(s, 2, Len(s)))

\* String.prototype.toLowerCase
toLowerCase(v) == Str(LowerString(v.str))

(***************************************************************************)
(* Key Composer.                                                           *)
(***************************************************************************)
KeysError == "keys should be strings"

RECURSIVE Join(_, _)
Join(keys, sep) ==
    IF Len(keys) = 0 THEN ""
    ELSE IF Len(keys) = 1 THEN keys[1].str
    ELSE keys[1].str \o sep \o Join(Tail(keys), sep)

\* mkKey(keys): the segments joined by ':'; the thrown error is the answer
\* KeysError, which is no key of the store
mkKey(keys) ==
    IF \E i \in 1..Len(keys) : ~isString(keys[i]) THEN KeysError
    ELSE Join(keys, ":")

(***************************************************************************)
(* The store's commands, as functions of the store d.  A command that      *)
(* writes answers the store after it.                                      *)
(***************************************************************************)
Put(d, key, value) ==
    [k \in DOMAIN d \cup {key} |-> IF k = key THEN value ELSE d[k]]

\* this.database.delAsync(key)
_deleteRecord(d, key) == [k \in DOMAIN d \ {key} |-> d[k]]

\* this.database.existsAsync(key): 1 or 0
_existsRecord(d, key) == IF key \in DOMAIN d THEN 1 ELSE 0

\* this.database.hgetallAsync(key): the fields as strings, null for no key
_getRecord(d, key) ==
    IF key \in DOMAIN d /\ d[key].type = "hash"
    THEN [f \in DOMAIN d[key].hash |-> Str(d[key].hash[f])]
    ELSE Null

\* HMSET with no field is refused by the store
hmsetFails(payload) == DOMAIN payload = {}

\* this.database.hmsetAsync(key, payload): the fields of payload are merged
\* into the hash at key, each value in its string form
hmset(d, key, payload) ==
    IF hmsetFails(payload) THEN d
    ELSE LET old == IF key \in DOMAIN d THEN d[key].hash ELSE EmptyObject
             new == [f \in DOMAIN old \cup DOMAIN payload |->
                        IF f \in DOMAIN payload THEN toWire(payload[f]) ELSE old[f]]
         IN  Put(d, key, [type |-> "hash", hash |-> new])

_createRecord(d, key, payload) == hmset(d, key, payload)

_updateRecord(d, key, payload) == hmset(d, key, payload)

\* this.database.getAsync(key)
_getIndexValue(d, key) ==
    IF key \in DOMAIN d /\ d[key].type = "string" THEN Str(d[key].string) ELSE Null

\* this.database.setAsync(key, value)
_setIndexValue(d, key, value) ==
    Put(d, key, [type |-> "string", string |-> toWire(value)])

(***************************************************************************)
(* What a handler answers: a value, or a thrown error.                     *)
(***************************************************************************)
Ok(value) == [res |-> value, err |-> ""]

\* an error thrown before the handler issued any store command
Throw(message) == [res |-> Undefined, err |-> message]

\* an error thrown after the handler issued the store commands named
ThrowAfter(message, commands) == [res |-> Undefined, err |-> message, after |-> commands]

\* the store commands a handler issued before it threw
issuedBefore(answer) == IF "after" \in DOMAIN answer THEN answer.after ELSE <<>>

AlreadyExists == "Already exists"

\* the record a handler leaves in last: its name, its arguments, the value
\* uuid.v4() gave it (null when it draws none), its answer and, for a thrown
\* error, the store commands issued before the throw
Call(op, args, uuid, answer) ==
    [op |-> op, args |-> args, uuid |-> uuid, res |-> answer.res, err |-> answer.err,
     after |-> issuedBefore(answer)]

\* a handler that composes the keys named and then issues one store command:
\* mkKey throws before the command is issued
command(keys, d, answer, after) ==
    IF KeysError \in keys THEN [answer |-> Throw(KeysError), db |-> d]
    ELSE [answer |-> answer, db |-> after]

\* the values uuid.v4() can return
Ids == {Str("i1"), Str("i2")}

(***************************************************************************)
(* Objects of the models.                                                  *)
(***************************************************************************)
NoParams == EmptyObject

\* the spreads in the order {...{id}, ...attrs, ...params}
initObjectIdFirst(classDef, attrs, id, params) ==
    [class |-> classDef,
     attrs |-> [f \in DOMAIN attrs \cup {"id"} \cup DOMAIN params |->
                  IF f \in DOMAIN params THEN params[f]
                  ELSE IF f \in DOMAIN attrs THEN attrs[f]
                  ELSE id]]

\* new classDef({...attrs, ...{id}, ...params}): later spreads win
initObject(classDef, attrs, id, params) ==
    [class |-> classDef,
     attrs |-> [f \in DOMAIN attrs \cup {"id"} \cup DOMAIN params |->
                  IF f \in DOMAIN params THEN params[f]
                  ELSE IF f = "id" THEN id
                  ELSE attrs[f]]]

\* user instanceof classDef: Person and Group are the two variants of an
\* account, neither an instance of the other
instanceOf(object, classDef) == object.class = classDef

(***************************************************************************)
(* User                                                                    *)
(***************************************************************************)
_normalizeUserEmail(email) == toLowerCase(email)

_createUserUsernameIndex(d, userId, username) ==
    _setIndexValue(d, mkKey(<<Str("username"), username, Str("uid")>>), userId)

createUserEmailIndex(d, userId, email) ==
    _setIndexValue(d, mkKey(<<Str("email"), _normalizeUserEmail(email), Str("uid")>>), userId)

getUserIdByUsername(d, username) ==
    _getIndexValue(d, mkKey(<<Str("username"), username, Str("uid")>>))

\* email && email.length > 0
hasEmail(email) == isString(email) /\ Len(email.str) > 0

\* the writes createUser issues once the existence probe answered 0
createUserWrites(d, userId, payload) ==
    LET username == Field(payload, "username")
        email    == Field(payload, "email")
        userKey  == mkKey(<<Str("user"), userId>>)
        d1       == _createUserUsernameIndex(d, userId, username)
        d2       == _createRecord(d1, userKey, payload)
    IN  IF hasEmail(email) THEN createUserEmailIndex(d2, userId, email) ELSE d2

\* createUser without the existence probe
createUserUnguarded(d, userId, payload) ==
    IF ~isString(Field(payload, "username")) THEN [answer |-> Throw(KeysError), db |-> d]
    ELSE [answer |-> Ok(userId), db |-> createUserWrites(d, userId, payload)]

\* createUser(payload) with userId the value of uuid.v4(): the answer and the
\* store after it
createUser(d, userId, payload) ==
    LET username == Field(payload, "username")
        userKey  == mkKey(<<Str("user"), userId>>)
        exists   == _existsRecord(d, userKey)
    IN  IF exists # 0 THEN [answer |-> ThrowAfter(AlreadyExists, <<"exists">>), db |-> d]
        ELSE IF mkKey(<<Str("username"), username, Str("uid")>>) = KeysError
        THEN [answer |-> ThrowAfter(KeysError, <<"exists">>), db |-> d]
        ELSE [answer |-> Ok(userId), db |-> createUserWrites(d, userId, payload)]

\* a lookup by id that raises an error for an id without record
getFeedOwnerByIdOrThrow(d, id) ==
    LET attrs == _getRecord(d, mkKey(<<Str("user"), id>>))
    IN  IF mkKey(<<Str("user"), id>>) = KeysError THEN Throw(KeysError)
        ELSE IF attrs = Null THEN ThrowAfter("Not found", <<"hgetall">>)
        ELSE IF Field(attrs, "type") = Str("group")
        THEN Ok(initObject("Group", attrs, id, NoParams))
        ELSE Ok(initObject("User", attrs, id, NoParams))

getFeedOwnerById(d, id) ==
    LET attrs == _getRecord(d, mkKey(<<Str("user"), id>>))
    IN  IF mkKey(<<Str("user"), id>>) = KeysError THEN Throw(KeysError)
        ELSE IF attrs = Null THEN Ok(Null)
        ELSE IF Field(attrs, "type") = Str("group")
        THEN Ok(initObject("Group", attrs, id, NoParams))
        ELSE Ok(initObject("User", attrs, id, NoParams))

\* a lookup that answers null for the other variant
expectClassOrNull(user, classDef) ==
    IF user = Null \/ ~instanceOf(user, classDef) THEN Ok(Null) ELSE Ok(user)

\* the check of getUserById, getGroupById, getUserByUsername and
\* getGroupByUsername made on what the polymorphic lookup answered
expectClass(user, classDef) ==
    IF user = Null THEN Ok(Null)
    ELSE IF ~instanceOf(user, classDef)
    THEN Throw("Expected " \o classDef \o ", got " \o user.class)
    ELSE Ok(user)

\* what a handler answers that awaits the polymorphic lookup and checks the
\* variant: an error of the lookup is its own
checked(feed, classDef) == IF feed.err # "" THEN feed ELSE expectClass(feed.res, classDef)

getUserById(d, id) == checked(getFeedOwnerById(d, id), "User")

getGroupById(d, id) == checked(getFeedOwnerById(d, id), "Group")

getFeedOwnerByUsername(d, username) ==
    LET identifier == getUserIdByUsername(d, toLowerCase(username))
    IN  IF identifier = Null THEN Ok(Null) ELSE getFeedOwnerById(d, identifier)

getUserByUsername(d, username) == checked(getFeedOwnerByUsername(d, username), "User")

getGroupByUsername(d, username) == checked(getFeedOwnerByUsername(d, username), "Group")

findUserByAttributeIndex(d, attribute, value) ==
    _getIndexValue(d, mkKey(<<Str(attribute), value, Str("uid")>>))

getUserByResetToken(d, token) ==
    LET uid == findUserByAttributeIndex(d, "reset", token)
    IN  IF mkKey(<<Str("reset"), token, Str("uid")>>) = KeysError THEN Throw(KeysError)
        ELSE IF uid = Null THEN Ok(Null)
        ELSE getUserById(d, uid)

getUserByEmail(d, email) ==
    LET uid == findUserByAttributeIndex(d, "email", toLowerCase(email))
    IN  IF uid = Null THEN Ok(Null) ELSE getUserById(d, uid)

(***************************************************************************)
(* Reset password tokens                                                   *)
(***************************************************************************)
createUserResetPasswordToken(d, userId, token) ==
    _setIndexValue(d, mkKey(<<Str("reset"), token, Str("uid")>>), userId)

deleteUserResetPasswordToken(d, token) ==
    _deleteRecord(d, mkKey(<<Str("reset"), token, Str("uid")>>))

(***************************************************************************)
(* Post, Comment, Attachment                                               *)
(***************************************************************************)
HmsetError == "ERR wrong number of arguments for 'hmset' command"

\* the guarded create of createPost, createComment and createAttachment,
\* with id the value of uuid.v4()
createEntity(d, modelName, id, payload) ==
    LET key    == mkKey(<<Str(modelName), id>>)
        exists == _existsRecord(d, key)
    IN  IF exists # 0 THEN [answer |-> ThrowAfter(AlreadyExists, <<"exists">>), db |-> d]
        ELSE IF hmsetFails(payload)
        THEN [answer |-> ThrowAfter(HmsetError, <<"exists", "hmset">>), db |-> d]
        ELSE [answer |-> Ok(id), db |-> _createRecord(d, key, payload)]

createPost(d, postId, payload) == createEntity(d, "post", postId, payload)

createComment(d, commentId, payload) == createEntity(d, "comment", commentId, payload)

createAttachment(d, attachmentId, payload) == createEntity(d, "attachment", attachmentId, payload)

\* an update that replaces the record by the given fields
updateEntityReplacing(d, modelName, id, payload) ==
    LET key == mkKey(<<Str(modelName), id>>)
    IN  IF key = KeysError THEN [answer |-> Throw(KeysError), db |-> d]
        ELSE IF hmsetFails(payload) THEN [answer |-> ThrowAfter(HmsetError, <<"hmset">>), db |-> d]
        ELSE [answer |-> Ok(Str("OK")), db |-> _updateRecord(_deleteRecord(d, key), key, payload)]

\* updateUser, updatePost, updateComment, updateAttachment: the key, then
\* _updateRecord
updateEntity(d, modelName, id, payload) ==
    LET key == mkKey(<<Str(modelName), id>>)
    IN  IF key = KeysError THEN [answer |-> Throw(KeysError), db |-> d]
        ELSE IF hmsetFails(payload) THEN [answer |-> ThrowAfter(HmsetError, <<"hmset">>), db |-> d]
        ELSE [answer |-> Ok(Str("OK")), db |-> _updateRecord(d, key, payload)]

updateUser(d, userId, payload) == updateEntity(d, "user", userId, payload)

updatePost(d, postId, payload) == updateEntity(d, "post", postId, payload)

updateComment(d, commentId, payload) == updateEntity(d, "comment", commentId, payload)

updateAttachment(d, attachmentId, payload) == updateEntity(d, "attachment", attachmentId, payload)

setPostUpdatedAt(d, postId, time) == updateEntity(d, "post", postId, [updatedAt |-> time])

\* updatedAt.toString()
toString(v) == Str(toWire(v))

setUserPassword(d, userId, updatedAt, hashedPassword) ==
    updateEntity(d, "user", userId,
                 [updatedAt |-> toString(updatedAt), hashedPassword |-> hashedPassword])

findRecordById(d, modelName, modelId) == _getRecord(d, mkKey(<<Str(modelName), modelId>>))

\* a batch read that answers the records found only
findRecordsByIdsFound(d, modelName, modelIds) ==
    SelectSeq([i \in 1..Len(modelIds) |-> _getRecord(d, mkKey(<<Str(modelName), modelIds[i]>>))],
              LAMBDA attrs : attrs # Null)

\* one hgetall per id, answered in the order of the requests
findRecordsByIds(d, modelName, modelIds) ==
    [i \in 1..Len(modelIds) |-> _getRecord(d, mkKey(<<Str(modelName), modelIds[i]>>))]

\* attrs.type of a response that is null
NullTypeError == "Cannot read property 'type' of null"

\* one object per id, of the variant its record's type names: the batch
\* answers null for an id without record, and reading its type throws
getFeedOwnersByIds(d, ids) ==
    LET responses == findRecordsByIds(d, "user", ids)
    IN  IF \E i \in 1..Len(ids) : mkKey(<<Str("user"), ids[i]>>) = KeysError
        THEN Throw(KeysError)
        ELSE IF \E i \in 1..Len(ids) : responses[i] = Null
        THEN ThrowAfter(NullTypeError, <<"batch">>)
        ELSE Ok(Array([i \in 1..Len(ids) |->
                          IF Field(responses[i], "type") = Str("group")
                          THEN initObject("Group", responses[i], ids[i], NoParams)
                          ELSE initObject("User", responses[i], ids[i], NoParams)]))

getUsersByIds(d, userIds) ==
    LET users == getFeedOwnersByIds(d, userIds)
    IN  IF users.err # "" THEN users
        ELSE IF \E i \in 1..Len(userIds) : ~instanceOf(users.res.array[i], "User")
        THEN ThrowAfter("Expected User, got Group", <<"batch">>)
        ELSE users

\* getPostById, getCommentById, getAttachmentById, getTimelineById
getEntityById(d, modelName, classDef, id) ==
    LET attrs == findRecordById(d, modelName, id)
    IN  IF mkKey(<<Str(modelName), id>>) = KeysError THEN Throw(KeysError)
        ELSE IF attrs = Null THEN Ok(Null)
        ELSE Ok(initObject(classDef, attrs, id, NoParams))

getPostById(d, id) == getEntityById(d, "post", "Post", id)

getCommentById(d, id) == getEntityById(d, "comment", "Comment", id)

getAttachmentById(d, id) == getEntityById(d, "attachment", "Attachment", id)

getTimelineById(d, id) == getEntityById(d, "timeline", "Timeline", id)

(***************************************************************************)
(* Timelines: records                                                      *)
(***************************************************************************)
getUserDiscussionsTimelineId(userId) == userId

\* a name record written anew, without the names it held
_createUserTimelineReplacing(d, userId, timelineName, timelineId) ==
    _createRecord(_deleteRecord(d, mkKey(<<Str("user"), userId, Str("timelines")>>)),
                  mkKey(<<Str("user"), userId, Str("timelines")>>),
                  [f \in {toWire(timelineName)} |-> timelineId])

\* payload = {}; payload[timelineName] = timelineId: a property name is the
\* string form of what it is given
_createUserTimeline(d, userId, timelineName, timelineId) ==
    _createRecord(d, mkKey(<<Str("user"), userId, Str("timelines")>>),
                  [f \in {toWire(timelineName)} |-> timelineId])

getUserTimelinesIds(d, userId) ==
    _getRecord(d, mkKey(<<Str("user"), userId, Str("timelines")>>))

existsTimeline(d, timelineId) == _existsRecord(d, mkKey(<<Str("timeline"), timelineId>>))

\* _createTimeline issuing the name record write before it looks at the probe
_createTimelineIndexFirst(d, timelineId, userId, payload) ==
    LET timelineKey == mkKey(<<Str("timeline"), timelineId>>)
        name        == Field(payload, "name")
        exists      == _existsRecord(d, timelineKey)
        d1          == _createUserTimeline(d, userId, name, timelineId)
        d2          == _createRecord(d1, timelineKey, payload)
    IN  IF exists # 0 THEN [answer |-> Throw(AlreadyExists), db |-> d1]
        ELSE [answer |-> Ok(timelineId), db |-> d2]

_createTimeline(d, timelineId, userId, payload) ==
    LET timelineKey == mkKey(<<Str("timeline"), timelineId>>)
        name        == Field(payload, "name")
        exists      == _existsRecord(d, timelineKey)
        d1          == _createUserTimeline(d, userId, name, timelineId)
        d2          == _createRecord(d1, timelineKey, payload)
    IN  IF timelineKey = KeysError THEN [answer |-> Throw(KeysError), db |-> d]
        ELSE IF exists # 0 THEN [answer |-> ThrowAfter(AlreadyExists, <<"exists">>), db |-> d]
        ELSE IF mkKey(<<Str("user"), userId, Str("timelines")>>) = KeysError
        THEN [answer |-> ThrowAfter(KeysError, <<"exists">>), db |-> d]
        ELSE IF hmsetFails(payload)
        THEN [answer |-> ThrowAfter(HmsetError, <<"exists", "hmset", "hmset">>), db |-> d2]
        ELSE [answer |-> Ok(timelineId), db |-> d2]

createTimeline(d, timelineId, payload) ==
    _createTimeline(d, timelineId, Field(payload, "userId"), payload)

\* createUserDiscussionsTimeline writing without the existence probe
createUserDiscussionsTimelineUnguarded(d, userId, payload) ==
    LET timelineId == getUserDiscussionsTimelineId(userId)
        d1         == _createUserTimeline(d, userId, Field(payload, "name"), timelineId)
    IN  [answer |-> Ok(timelineId),
         db |-> _createRecord(d1, mkKey(<<Str("timeline"), timelineId>>), payload)]

createUserDiscussionsTimeline(d, userId, payload) ==
    _createTimeline(d, getUserDiscussionsTimelineId(userId), userId, payload)

(***************************************************************************)
(* Sorted sets.  A sorted set is a set of <<member, score>> entries; the   *)
(* store orders it by score and, among equal scores, by member.            *)
(***************************************************************************)
\* the characters of ids and names in the store's (byte) order
ByteOrder == "-.0123456789:@ABCDEFGHIJKLMNOPQRSTUVWXYZ_abcdefghijklmnopqrstuvwxyz"

CharCode(c) == CHOOSE i \in 1..Len(ByteOrder) : SubSeq(ByteOrder, i, i) = c

RECURSIVE StringLess(_, _)
StringLess(a, b) ==
    IF Len(b) = 0 THEN FALSE
    ELSE IF Len(a) = 0 THEN TRUE
    ELSE IF SubSeq(a, 1, 1) # SubSeq(b, 1, 1)
    THEN CharCode(SubSeq(a, 1, 1)) < CharCode(SubSeq(b, 1, 1))
    ELSE StringLess(SubSeq(a, 2, Len(a)), SubSeq(b, 2, Len(b)))

EntryLess(e, f) == e[2] < f[2] \/ (e[2] = f[2] /\ StringLess(e[1], f[1]))

\* the entries by ascending rank
RECURSIVE Ascending(_)
Ascending(zs) ==
    IF zs = {} THEN <<>>
    ELSE LET least == CHOOSE e \in zs : \A f \in zs \ {e} : EntryLess(e, f)
         IN  <<least>> \o Ascending(zs \ {least})

Reverse(seq) == [i \in 1..Len(seq) |-> seq[Len(seq) + 1 - i]]

\* the store's index range from..to over a sequence: indexes count from 0,
\* negative ones from the end
IndexRange(seq, from, to) ==
    LET n     == Len(seq)
        start == IF from < 0 THEN (IF n + from < 0 THEN 0 ELSE n + from) ELSE from
        stop  == IF to < 0 THEN n + to ELSE (IF to > n - 1 THEN n - 1 ELSE to)
    IN  IF start > stop \/ start >= n THEN <<>> ELSE SubSeq(seq, start + 1, stop + 1)

MembersOf(entries) == [i \in 1..Len(entries) |-> Str(entries[i][1])]

zsetAt(d, key) == IF key \in DOMAIN d /\ d[key].type = "zset" THEN d[key].zset ELSE {}

\* a sorted set left without entries is no key any more
storeZset(d, key, zs) ==
    IF zs = {} THEN _deleteRecord(d, key) ELSE Put(d, key, [type |-> "zset", zset |-> zs])

\* an add that leaves the member's earlier entry in place
_addElementToSortedSetAppend(d, key, score, element) ==
    storeZset(d, key, zsetAt(d, key) \cup {<<toWire(element), score>>})

\* this.database.zaddAsync(key, score, element)
_addElementToSortedSet(d, key, score, element) ==
    storeZset(d, key, {e \in zsetAt(d, key) : e[1] # toWire(element)}
                         \cup {<<toWire(element), score>>})

\* this.database.zremAsync(key, element)
_removeElementFromSortedSet(d, key, element) ==
    storeZset(d, key, {e \in zsetAt(d, key) : e[1] # toWire(element)})

\* this.database.zcardAsync(key)
_getSortedSetElementsCount(d, key) == Cardinality(zsetAt(d, key))

\* this.database.zscoreAsync(key, element): the score as a string, or null
_getSortedSetElementScore(d, key, element) ==
    IF \E e \in zsetAt(d, key) : e[1] = toWire(element)
    THEN Str(ToString((CHOOSE e \in zsetAt(d, key) : e[1] = toWire(element))[2]))
    ELSE Null

\* the range read by ascending rank
_getSortedSetElementsAscending(d, key, fromIndex, toIndex) ==
    MembersOf(IndexRange(Ascending(zsetAt(d, key)), fromIndex, toIndex))

\* this.database.zrevrangeAsync(key, fromIndex, toIndex)
_getSortedSetElements(d, key, fromIndex, toIndex) ==
    MembersOf(IndexRange(Reverse(Ascending(zsetAt(d, key))), fromIndex, toIndex))

_getAllSortedSetElements(d, key) == _getSortedSetElements(d, key, 0, -1)

\* the read-back by descending rank
_getTimelinesIntersectionPostsDescending(d, key) ==
    MembersOf(IndexRange(Reverse(Ascending(zsetAt(d, key))), 0, -1))

\* this.database.zrangeAsync(key, 0, -1)
_getTimelinesIntersectionPosts(d, key) ==
    MembersOf(IndexRange(Ascending(zsetAt(d, key)), 0, -1))

Members(zs) == {e[1] : e \in zs}

ScoreIn(zs, m) == (CHOOSE e \in zs : e[1] = m)[2]

Greater(a, b) == IF a >= b THEN a ELSE b

\* the store's default, AGGREGATE SUM
AggregateSum(zs1, zs2, m) ==
    IF m \in Members(zs1) /\ m \in Members(zs2) THEN ScoreIn(zs1, m) + ScoreIn(zs2, m)
    ELSE IF m \in Members(zs1) THEN ScoreIn(zs1, m)
    ELSE ScoreIn(zs2, m)

\* AGGREGATE MAX of a member that is in one or in both of two sorted sets
AggregateMax(zs1, zs2, m) ==
    IF m \in Members(zs1) /\ m \in Members(zs2) THEN Greater(ScoreIn(zs1, m), ScoreIn(zs2, m))
    ELSE IF m \in Members(zs1) THEN ScoreIn(zs1, m)
    ELSE ScoreIn(zs2, m)

\* this.database.zunionstoreAsync(dest, 2, key1, key2, 'AGGREGATE', 'MAX')
zunionstore(d, dest, key1, key2) ==
    LET zs1 == zsetAt(d, key1)
        zs2 == zsetAt(d, key2)
    IN  storeZset(d, dest, {<<m, AggregateMax(zs1, zs2, m)>> : m \in Members(zs1) \cup Members(zs2)})

\* this.database.zinterstoreAsync(dest, 2, key1, key2, 'AGGREGATE', 'MAX')
zinterstore(d, dest, key1, key2) ==
    LET zs1 == zsetAt(d, key1)
        zs2 == zsetAt(d, key2)
    IN  storeZset(d, dest, {<<m, AggregateMax(zs1, zs2, m)>> : m \in Members(zs1) \cap Members(zs2)})

\* the number a numeric string converts to in a comparison
toNumber(v) == CHOOSE n \in -1..MaxScore : ToString(n) = v.str

\* the presence test that takes a member with score 0 for absent
presentIfPositive(score) ==
    IF score = Null THEN Null ELSE Bool(toNumber(score) > 0)

\* score && score >= 0 of a score that the store answers as a number
presentIfScoredNumber(score) ==
    IF score = Null THEN Null
    ELSE IF toNumber(score) = 0 THEN Num(0)
    ELSE Bool(toNumber(score) >= 0)

\* score && score >= 0
presentIfScored(score) ==
    IF truthy(score) THEN Bool(toNumber(score) >= 0) ELSE score

\* this.database.zrevrangebyscoreAsync(key, max, min): the members with
\* min <= score <= max, greatest score first
zrevrangebyscore(d, key, max, min) ==
    MembersOf(Reverse(Ascending({e \in zsetAt(d, key) : min <= e[2] /\ e[2] <= max})))

(***************************************************************************)
(* Lists.  A list is a sequence of strings; RPUSH appends at the tail and  *)
(* LREM with count 1 removes the first entry, from the head, that equals   *)
(* the value.                                                              *)
(***************************************************************************)
listAt(d, key) == IF key \in DOMAIN d /\ d[key].type = "list" THEN d[key].list ELSE <<>>

\* a list left without entries is no key any more
storeList(d, key, list) ==
    IF list = <<>> THEN _deleteRecord(d, key) ELSE Put(d, key, [type |-> "list", list |-> list])

RECURSIVE RemoveFirst(_, _)
RemoveFirst(list, value) ==
    IF list = <<>> THEN <<>>
    ELSE IF Head(list) = value THEN Tail(list)
    ELSE <<Head(list)>> \o RemoveFirst(Tail(list), value)

\* this.database.llenAsync(key)
_getListElementsCount(d, key) == Len(listAt(d, key))

\* this.database.lrangeAsync(key, fromIndex, toIndex)
_getListElementsRange(d, key, fromIndex, toIndex) ==
    LET entries == IndexRange(listAt(d, key), fromIndex, toIndex)
    IN  [i \in 1..Len(entries) |-> Str(entries[i])]

_getAllListElements(d, key) == _getListElementsRange(d, key, 0, -1)

\* this.database.rpushAsync(key, element)
_addElementToList(d, key, element) == storeList(d, key, Append(listAt(d, key), toWire(element)))

\* LREM key -1 element: the first entry from the tail
_removeLastElementFromList(d, key, element) ==
    storeList(d, key, Reverse(RemoveFirst(Reverse(listAt(d, key)), toWire(element))))

\* this.database.lremAsync(key, 1, element)
_removeOneElementFromList(d, key, element) ==
    storeList(d, key, RemoveFirst(listAt(d, key), toWire(element)))

\* this.database.lremAsync(key, 0, element)
_removeAllElementsEqualToFromList(d, key, element) ==
    storeList(d, key, SelectSeq(listAt(d, key), LAMBDA entry : entry # toWire(element)))

(***************************************************************************)
(* Posts: comments and attachments                                         *)
(***************************************************************************)
commentsKey(postId) == mkKey(<<Str("post"), postId, Str("comments")>>)

getPostCommentsCount(d, postId) == _getListElementsCount(d, commentsKey(postId))

removeCommentFromPost(d, postId, commentId) ==
    _removeOneElementFromList(d, commentsKey(postId), commentId)

getPostCommentsRange(d, postId, fromIndex, toIndex) ==
    _getListElementsRange(d, commentsKey(postId), fromIndex, toIndex)

addCommentToPost(d, postId, commentId) ==
    _addElementToList(d, commentsKey(postId), commentId)

deletePostComments(d, postId) == _deleteRecord(d, commentsKey(postId))

attachmentsKey(postId) == mkKey(<<Str("post"), postId, Str("attachments")>>)

getPostAttachments(d, postId) == _getAllListElements(d, attachmentsKey(postId))

addAttachmentToPost(d, postId, attachmentId) ==
    _addElementToList(d, attachmentsKey(postId), attachmentId)

removeAttachmentsFromPost(d, postId, attachmentId) ==
    _removeAllElementsEqualToFromList(d, attachmentsKey(postId), attachmentId)

(***************************************************************************)
(* Posts: likes                                                            *)
(***************************************************************************)
likesKey(postId) == mkKey(<<Str("post"), postId, Str("likes")>>)

\* createUserPostLike(postId, userId) with now the value of
\* new Date().getTime()
createUserPostLike(d, now, postId, userId) ==
    _addElementToSortedSet(d, likesKey(postId), now, userId)

getPostLikesCount(d, postId) == _getSortedSetElementsCount(d, likesKey(postId))

getPostLikesRange(d, postId, fromIndex, toIndex) ==
    _getSortedSetElements(d, likesKey(postId), fromIndex, toIndex)

hasUserLikedPost(d, userId, postId) ==
    presentIfScored(_getSortedSetElementScore(d, likesKey(postId), userId))

getUserPostLikedTime(d, userId, postId) ==
    _getSortedSetElementScore(d, likesKey(postId), userId)

removeUserPostLike(d, postId, userId) ==
    _removeElementFromSortedSet(d, likesKey(postId), userId)

deletePostLikes(d, postId) == _deleteRecord(d, likesKey(postId))

(***************************************************************************)
(* Subscription requests                                                   *)
(***************************************************************************)
requestsKey(userId) == mkKey(<<Str("user"), userId, Str("requests")>>)

getUserSubscriptionRequestsIds(d, currentUserId) ==
    _getAllSortedSetElements(d, requestsKey(currentUserId))

isSubscriptionRequestPresent(d, currentUserId, followedUserId) ==
    presentIfScored(_getSortedSetElementScore(d, requestsKey(followedUserId), currentUserId))

createUserSubscriptionRequest(d, currentUserId, currentTime, followedUserId) ==
    _addElementToSortedSet(d, requestsKey(followedUserId), currentTime, currentUserId)

\* deleteUserSubscriptionRequest removing the caller from the other account's
\* registry
deleteUserSubscriptionRequestOfFollower(d, currentUserId, followerUserId) ==
    _removeElementFromSortedSet(d, requestsKey(followerUserId), currentUserId)

deleteUserSubscriptionRequest(d, currentUserId, followerUserId) ==
    _removeElementFromSortedSet(d, requestsKey(currentUserId), followerUserId)

(***************************************************************************)
(* Pending (sent) requests                                                 *)
(***************************************************************************)
pendingKey(userId) == mkKey(<<Str("user"), userId, Str("pending")>>)

getUserSubscriptionPendingRequestsIds(d, currentUserId) ==
    _getAllSortedSetElements(d, pendingKey(currentUserId))

createUserSubscriptionPendingRequest(d, currentUserId, currentTime, followedUserId) ==
    _addElementToSortedSet(d, pendingKey(currentUserId), currentTime, followedUserId)

deleteUserSubscriptionPendingRequest(d, currentUserId, followerUserId) ==
    _removeElementFromSortedSet(d, pendingKey(followerUserId), currentUserId)

(***************************************************************************)
(* Timelines: post registries                                              *)
(***************************************************************************)
postsKey(timelineId) == mkKey(<<Str("timeline"), timelineId, Str("posts")>>)

addPostToTimeline(d, timelineId, time, postId) ==
    _addElementToSortedSet(d, postsKey(timelineId), time, postId)

removePostFromTimeline(d, timelineId, postId) ==
    _removeElementFromSortedSet(d, postsKey(timelineId), postId)

getTimelinePostsCount(d, timelineId) == _getSortedSetElementsCount(d, postsKey(timelineId))

getTimelinePostsRange(d, timelineId, startIndex, finishIndex) ==
    _getSortedSetElements(d, postsKey(timelineId), startIndex, finishIndex)

isPostPresentInTimeline(d, timelineId, postId) ==
    presentIfScored(_getSortedSetElementScore(d, postsKey(timelineId), postId))

\* zrevrangebyscoreAsync(key, timeIntervalStart, timeIntervalEnd): the start
\* is the command's max, the end its min
getTimelinePostsInTimeInterval(d, timelineId, timeIntervalStart, timeIntervalEnd) ==
    zrevrangebyscore(d, postsKey(timelineId), timeIntervalStart, timeIntervalEnd)

createMergedPostsTimeline(d, destinationTimelineId, sourceTimelineId1, sourceTimelineId2) ==
    zunionstore(d, postsKey(destinationTimelineId),
                postsKey(sourceTimelineId1), postsKey(sourceTimelineId2))

\* the temporary key filled by a union
_getPostsTimelinesUnion(d, destKey, sourceTimelineId1, sourceTimelineId2) ==
    zunionstore(d, destKey, postsKey(sourceTimelineId1), postsKey(sourceTimelineId2))

_getPostsTimelinesIntersection(d, destKey, sourceTimelineId1, sourceTimelineId2) ==
    zinterstore(d, destKey, postsKey(sourceTimelineId1), postsKey(sourceTimelineId2))

\* the intersection read without the delete of the temporary key
getTimelinesIntersectionPostIdsNoDelete(d, random, timelineId1, timelineId2) ==
    LET randomKey == mkKey(<<Str("timeline"), timelineId1, Str("random"), random>>)
        d1        == _getPostsTimelinesIntersection(d, randomKey, timelineId2, timelineId1)
    IN  [answer |-> Ok(Array(_getTimelinesIntersectionPosts(d1, randomKey))), db |-> d1]

\* getTimelinesIntersectionPostIds(timelineId1, timelineId2) with random the
\* value of uuid.v4(): intersect into the temporary key, read it, delete it
getTimelinesIntersectionPostIds(d, random, timelineId1, timelineId2) ==
    LET randomKey == mkKey(<<Str("timeline"), timelineId1, Str("random"), random>>)
        d1        == _getPostsTimelinesIntersection(d, randomKey, timelineId2, timelineId1)
        postIds   == _getTimelinesIntersectionPosts(d1, randomKey)
        d2        == _deleteRecord(d1, randomKey)
    IN  IF KeysError \in {randomKey, postsKey(timelineId2)}
        THEN [answer |-> Throw(KeysError), db |-> d]
        ELSE [answer |-> Ok(Array(postIds)), db |-> d2]

(***************************************************************************)
(* Stats                                                                   *)
(***************************************************************************)
\* the integer a stored field holds
toInteger(s) == CHOOSE n \in -(MaxCalls + 1)..(MaxCalls + 1) : ToString(n) = s

\* this.database.hincrbyAsync(key, field, value): a missing field counts 0
hincrby(d, key, field, value) ==
    LET old == IF key \in DOMAIN d THEN d[key].hash ELSE EmptyObject
        was == IF field \in DOMAIN old THEN toInteger(old[field]) ELSE 0
    IN  Put(d, key, [type |-> "hash",
                     hash |-> [f \in DOMAIN old \cup {field} |->
                                  IF f = field THEN ToString(was + value) ELSE old[f]]])

\* this.database.zincrbyAsync(key, increment, member): a missing member
\* counts 0
zincrby(d, key, increment, member) ==
    LET zs  == zsetAt(d, key)
        was == IF toWire(member) \in Members(zs) THEN ScoreIn(zs, toWire(member)) ELSE 0
    IN  storeZset(d, key, {e \in zs : e[1] # toWire(member)}
                             \cup {<<toWire(member), was + increment>>})

statsKey(userId) == mkKey(<<Str("stats"), userId>>)

leaderboardKey(property) == mkKey(<<Str("stats"), property>>)

\* a counter change that moves the leaderboard of the same name with it
changeUserStatsValueWithLeaderboard(d, userId, property, value) ==
    zincrby(hincrby(d, statsKey(userId), property.str, value),
            leaderboardKey(property), value, userId)

changeUserStatsValue(d, userId, property, value) ==
    hincrby(d, statsKey(userId), property.str, value)

changeUserStats(d, userId, property, value) ==
    zincrby(d, leaderboardKey(property), value, userId)

(***************************************************************************)
(* Sets, and the sets and the record of a post.                            *)
(***************************************************************************)
setAt(d, key) == IF key \in DOMAIN d /\ d[key].type = "set" THEN d[key].set ELSE {}

\* this.database.saddAsync(key, element): an array is added member by member
_addElementToSet(d, key, element) ==
    LET added == IF DOMAIN element = {"array"}
                 THEN {toWire(element.array[i]) : i \in 1..Len(element.array)}
                 ELSE {toWire(element)}
    IN  IF added = {} THEN d
        ELSE Put(d, key, [type |-> "set", set |-> setAt(d, key) \cup added])

\* this.database.smembersAsync(key)
_getSetElements(d, key) == setAt(d, key)

usagesKey(postId) == mkKey(<<Str("post"), postId, Str("timelines")>>)

postedToKey(postId) == mkKey(<<Str("post"), postId, Str("to")>>)

createPostUsageInTimeline(d, postId, timelineId) ==
    _addElementToSet(d, usagesKey(postId), timelineId)

getPostUsagesInTimelines(d, postId) == _getSetElements(d, usagesKey(postId))

deletePostUsagesInTimelineIndex(d, postId) == _deleteRecord(d, usagesKey(postId))

getPostPostedToIds(d, postId) == _getSetElements(d, postedToKey(postId))

createPostPostedTo(d, postId, timelineIds) ==
    _addElementToSet(d, postedToKey(postId), timelineIds)

deletePostPostedTo(d, postId) == _deleteRecord(d, postedToKey(postId))

\* a deletion that takes the sets and logs of the post with the record
deletePostWithItsIndexes(d, postId) ==
    [k \in DOMAIN d \ {mkKey(<<Str("post"), postId>>), likesKey(postId), commentsKey(postId),
                       attachmentsKey(postId), usagesKey(postId), postedToKey(postId)}
        |-> d[k]]

deletePost(d, postId) == _deleteRecord(d, mkKey(<<Str("post"), postId>>))

(***************************************************************************)
(* The inputs of the handlers.                                             *)
(***************************************************************************)
Usernames == {Str("alice"), Str("Alice")}

AccountTypes == {Str("user"), Str("group")}

Emails == {Str("A@x.org")}

UserPayloads ==
    {[username |-> u, type |-> t] : u \in Usernames, t \in AccountTypes}
    \cup {[username |-> u, type |-> t, email |-> e] :
              u \in Usernames, t \in AccountTypes, e \in Emails}

PostPayloads ==
    {EmptyObject,
     [body |-> Str("hello")],
     [body |-> Str("hi"), createdAt |-> Num(7)]}

CommentPayloads ==
    {[body |-> Str("nice")],
     [body |-> Str("mine"), id |-> Str("c0")]}

AttachmentPayloads == {[fileName |-> Str("a.png"), fileSize |-> Num(10)]}

TimelineNames == {Str("Posts"), Str("Discussions")}

TimelinePayloads == {[name |-> n, userId |-> u] : n \in TimelineNames, u \in Ids}

RECURSIVE SeqsUpTo(_, _)
SeqsUpTo(S, n) ==
    IF n = 0 THEN {<<>>}
    ELSE LET shorter == SeqsUpTo(S, n - 1)
         IN  shorter \cup {Append(q, x) : q \in {r \in shorter : Len(r) = n - 1}, x \in S}

BatchKinds == {"post", "user"}

(***************************************************************************)
(* State and steps.                                                        *)
(***************************************************************************)
EmptyStore == [k \in {} |-> Null]

\* no call is under way
Idle == Call("", <<>>, Null, Ok(Null))

\* the clients whose calls the store serves command by command
Procs == {"a", "b"}

\* a call under way: the commands it has issued and the store has yet to
\* answer (pending, in the order of issue), the commands the store answered
\* (log), whether the promise of the call is settled and with what
NoTask ==
    [op |-> "", args |-> <<>>, uuid |-> Null, pending |-> <<>>, log |-> <<>>,
     settled |-> FALSE, res |-> Undefined, err |-> "", postIds |-> Null]

Init ==
    /\ db = EmptyStore
    /\ pre = EmptyStore
    /\ last = Idle
    /\ discussionsCreated = [u \in Ids |-> 0]
    /\ calls = 0
    /\ tasks = [p \in Procs |-> NoTask]

\* a handler that writes: result is its answer and the store after it
Writes(op, args, uuid, result) ==
    /\ last.op = ""
    /\ db' = result.db
    /\ pre' = db
    /\ last' = Call(op, args, uuid, result.answer)
    /\ UNCHANGED tasks

\* a handler that only reads
Reads(op, args, answer) ==
    /\ last.op = ""
    /\ db' = db
    /\ pre' = db
    /\ last' = Call(op, args, Null, answer)
    /\ UNCHANGED tasks

\* the caller takes the answer of the call it made
AwaitAnswer ==
    /\ last.op # ""
    /\ last' = Idle
    /\ pre' = db
    /\ UNCHANGED <<db, discussionsCreated, calls, tasks>>

\* one more call of a run of at most MaxCalls calls
Counted ==
    /\ calls < MaxCalls
    /\ calls' = calls + 1

(***************************************************************************)
(* The record handlers.                                                    *)
(***************************************************************************)
CreateUser ==
    \E userId \in Ids, payload \in UserPayloads :
        /\ Counted
        /\ Writes("createUser", <<payload>>, userId, createUser(db, userId, payload))
        /\ UNCHANGED discussionsCreated

CreatePost ==
    \E postId \in Ids, payload \in PostPayloads :
        /\ Counted
        /\ Writes("createPost", <<payload>>, postId, createPost(db, postId, payload))
        /\ UNCHANGED discussionsCreated

CreateComment ==
    \E commentId \in Ids, payload \in CommentPayloads :
        /\ Counted
        /\ Writes("createComment", <<payload>>, commentId, createComment(db, commentId, payload))
        /\ UNCHANGED discussionsCreated

CreateAttachment ==
    \E attachmentId \in Ids, payload \in AttachmentPayloads :
        /\ Counted
        /\ Writes("createAttachment", <<payload>>, attachmentId,
                  createAttachment(db, attachmentId, payload))
        /\ UNCHANGED discussionsCreated

CreateTimeline ==
    \E timelineId \in Ids, payload \in TimelinePayloads :
        /\ Counted
        /\ Writes("createTimeline", <<payload>>, timelineId,
                  createTimeline(db, timelineId, payload))
        /\ UNCHANGED discussionsCreated

CreateUserDiscussionsTimeline ==
    \E userId \in Ids, payload \in TimelinePayloads :
        LET result == createUserDiscussionsTimeline(db, userId, payload)
        IN  /\ Counted
            /\ Writes("createUserDiscussionsTimeline", <<userId, payload>>, Null, result)
            /\ discussionsCreated' =
                   IF result.answer.err = ""
                   THEN [discussionsCreated EXCEPT ![userId] = @ + 1]
                   ELSE discussionsCreated

GetFeedOwnerById ==
    \E id \in Ids :
        /\ Counted
        /\ Reads("getFeedOwnerById", <<id>>, getFeedOwnerById(db, id))
        /\ UNCHANGED discussionsCreated

GetUserById ==
    \E id \in Ids :
        /\ Counted
        /\ Reads("getUserById", <<id>>, getUserById(db, id))
        /\ UNCHANGED discussionsCreated

GetGroupById ==
    \E id \in Ids :
        /\ Counted
        /\ Reads("getGroupById", <<id>>, getGroupById(db, id))
        /\ UNCHANGED discussionsCreated

GetUserByUsername ==
    \E username \in Usernames :
        /\ Counted
        /\ Reads("getUserByUsername", <<username>>, getUserByUsername(db, username))
        /\ UNCHANGED discussionsCreated

GetGroupByUsername ==
    \E username \in Usernames :
        /\ Counted
        /\ Reads("getGroupByUsername", <<username>>, getGroupByUsername(db, username))
        /\ UNCHANGED discussionsCreated

GetPostById ==
    \E id \in Ids :
        /\ Counted
        /\ Reads("getPostById", <<id>>, getPostById(db, id))
        /\ UNCHANGED discussionsCreated

GetCommentById ==
    \E id \in Ids :
        /\ Counted
        /\ Reads("getCommentById", <<id>>, getCommentById(db, id))
        /\ UNCHANGED discussionsCreated

GetAttachmentById ==
    \E id \in Ids :
        /\ Counted
        /\ Reads("getAttachmentById", <<id>>, getAttachmentById(db, id))
        /\ UNCHANGED discussionsCreated

GetTimelineById ==
    \E id \in Ids :
        /\ Counted
        /\ Reads("getTimelineById", <<id>>, getTimelineById(db, id))
        /\ UNCHANGED discussionsCreated

FindRecordsByIds ==
    \E modelName \in BatchKinds, modelIds \in SeqsUpTo(Ids, MaxBatch) :
        /\ Counted
        /\ Reads("findRecordsByIds", <<modelName, modelIds>>,
                 Ok(Array(findRecordsByIds(db, modelName, modelIds))))
        /\ UNCHANGED discussionsCreated

NextRecords ==
    \/ CreateUser
    \/ CreatePost
    \/ CreateComment
    \/ CreateAttachment
    \/ CreateTimeline
    \/ CreateUserDiscussionsTimeline
    \/ GetFeedOwnerById
    \/ GetUserById
    \/ GetGroupById
    \/ GetUserByUsername
    \/ GetGroupByUsername
    \/ GetPostById
    \/ GetCommentById
    \/ GetAttachmentById
    \/ GetTimelineById
    \/ FindRecordsByIds
    \/ AwaitAnswer

SpecRecords == Init /\ [][NextRecords]_vars

(***************************************************************************)
(* The account lookups: by id, by username, by email, by reset token.      *)
(***************************************************************************)
Tokens == {Str("tok")}

CreateUserResetPasswordToken ==
    \E userId \in Ids, token \in Tokens :
        /\ Counted
        /\ Writes("createUserResetPasswordToken", <<userId, token>>, Null,
                  [answer |-> Ok(Str("OK")),
                   db |-> createUserResetPasswordToken(db, userId, token)])
        /\ UNCHANGED discussionsCreated

DeleteUserResetPasswordToken ==
    \E token \in Tokens :
        /\ Counted
        /\ Writes("deleteUserResetPasswordToken", <<token>>, Null,
                  [answer |-> Ok(Num(_existsRecord(db, mkKey(<<Str("reset"), token, Str("uid")>>)))),
                   db |-> deleteUserResetPasswordToken(db, token)])
        /\ UNCHANGED discussionsCreated

CreateUserEmailIndex ==
    \E userId \in Ids, email \in Emails :
        /\ Counted
        /\ Writes("createUserEmailIndex", <<userId, email>>, Null,
                  [answer |-> Ok(Str("OK")), db |-> createUserEmailIndex(db, userId, email)])
        /\ UNCHANGED discussionsCreated

GetFeedOwnerByUsername ==
    \E username \in Usernames :
        /\ Counted
        /\ Reads("getFeedOwnerByUsername", <<username>>, getFeedOwnerByUsername(db, username))
        /\ UNCHANGED discussionsCreated

GetUserByEmail ==
    \E email \in Emails :
        /\ Counted
        /\ Reads("getUserByEmail", <<email>>, getUserByEmail(db, email))
        /\ UNCHANGED discussionsCreated

GetUserByResetToken ==
    \E token \in Tokens :
        /\ Counted
        /\ Reads("getUserByResetToken", <<token>>, getUserByResetToken(db, token))
        /\ UNCHANGED discussionsCreated

NextLookups ==
    \/ CreateUser
    \/ CreateUserResetPasswordToken
    \/ DeleteUserResetPasswordToken
    \/ CreateUserEmailIndex
    \/ GetFeedOwnerById
    \/ GetUserById
    \/ GetPostById
    \/ GetFeedOwnerByUsername
    \/ GetUserByUsername
    \/ GetUserByEmail
    \/ GetUserByResetToken
    \/ AwaitAnswer

SpecLookups == Init /\ [][NextLookups]_vars

(***************************************************************************)
(* The timeline handlers.                                                  *)
(***************************************************************************)
TimelineIds == {Str("t1"), Str("t2"), Str("t3")}

PostIds == {Str("p1"), Str("p2")}

Times == 0..MaxScore

AddPostToTimeline ==
    \E timelineId \in TimelineIds, time \in Times, postId \in PostIds :
        /\ Writes("addPostToTimeline", <<timelineId, time, postId>>, Null,
                  [answer |-> Ok(Null), db |-> addPostToTimeline(db, timelineId, time, postId)])
        /\ UNCHANGED <<discussionsCreated, calls>>

RemovePostFromTimeline ==
    \E timelineId \in TimelineIds, postId \in PostIds :
        /\ Writes("removePostFromTimeline", <<timelineId, postId>>, Null,
                  [answer |-> Ok(Null), db |-> removePostFromTimeline(db, timelineId, postId)])
        /\ UNCHANGED <<discussionsCreated, calls>>

CreateMergedPostsTimeline ==
    \E destinationTimelineId \in TimelineIds,
       sourceTimelineId1 \in TimelineIds, sourceTimelineId2 \in TimelineIds :
        /\ Writes("createMergedPostsTimeline",
                  <<destinationTimelineId, sourceTimelineId1, sourceTimelineId2>>, Null,
                  [answer |-> Ok(Null),
                   db |-> createMergedPostsTimeline(db, destinationTimelineId,
                                                    sourceTimelineId1, sourceTimelineId2)])
        /\ UNCHANGED <<discussionsCreated, calls>>

GetTimelinesIntersectionPostIds ==
    \E random \in Ids, timelineId1 \in TimelineIds, timelineId2 \in TimelineIds :
        /\ Writes("getTimelinesIntersectionPostIds", <<timelineId1, timelineId2>>, random,
                  getTimelinesIntersectionPostIds(db, random, timelineId1, timelineId2))
        /\ UNCHANGED <<discussionsCreated, calls>>

(***************************************************************************)
(* The registries of likes and of posts, written and read.                 *)
(***************************************************************************)
LikedPosts == PostIds

\* the timeline of the author of the posts
AuthorTimelines == {Str("t1")}

\* the index pairs of the range reads
FromIndexes == {0, 1}

ToIndexes == {-1, 0}

CreateUserPostLike ==
    \E now \in Times, postId \in LikedPosts, userId \in Ids :
        /\ Writes("createUserPostLike", <<postId, userId>>, Null,
                  [answer |-> Ok(Null), db |-> createUserPostLike(db, now, postId, userId)])
        /\ UNCHANGED <<discussionsCreated, calls>>

RemoveUserPostLike ==
    \E postId \in LikedPosts, userId \in Ids :
        /\ Writes("removeUserPostLike", <<postId, userId>>, Null,
                  [answer |-> Ok(Null), db |-> removeUserPostLike(db, postId, userId)])
        /\ UNCHANGED <<discussionsCreated, calls>>

DeletePostLikes ==
    \E postId \in LikedPosts :
        /\ Writes("deletePostLikes", <<postId>>, Null,
                  [answer |-> Ok(Null), db |-> deletePostLikes(db, postId)])
        /\ UNCHANGED <<discussionsCreated, calls>>

AddPostToTimelineOfAuthor ==
    \E timelineId \in AuthorTimelines, time \in Times, postId \in PostIds :
        /\ Writes("addPostToTimeline", <<timelineId, time, postId>>, Null,
                  [answer |-> Ok(Null), db |-> addPostToTimeline(db, timelineId, time, postId)])
        /\ UNCHANGED <<discussionsCreated, calls>>

RemovePostFromTimelineOfAuthor ==
    \E timelineId \in AuthorTimelines, postId \in PostIds :
        /\ Writes("removePostFromTimeline", <<timelineId, postId>>, Null,
                  [answer |-> Ok(Null), db |-> removePostFromTimeline(db, timelineId, postId)])
        /\ UNCHANGED <<discussionsCreated, calls>>

GetPostLikesCount ==
    \E postId \in LikedPosts :
        /\ Reads("getPostLikesCount", <<postId>>, Ok(Num(getPostLikesCount(db, postId))))
        /\ UNCHANGED <<discussionsCreated, calls>>

HasUserLikedPost ==
    \E userId \in Ids, postId \in LikedPosts :
        /\ Reads("hasUserLikedPost", <<userId, postId>>, Ok(hasUserLikedPost(db, userId, postId)))
        /\ UNCHANGED <<discussionsCreated, calls>>

GetPostLikesRange ==
    \E postId \in LikedPosts, fromIndex \in FromIndexes, toIndex \in ToIndexes :
        /\ Reads("getPostLikesRange", <<postId, fromIndex, toIndex>>,
                 Ok(Array(getPostLikesRange(db, postId, fromIndex, toIndex))))
        /\ UNCHANGED <<discussionsCreated, calls>>

GetTimelinePostsRange ==
    \E timelineId \in TimelineIds, startIndex \in FromIndexes, finishIndex \in ToIndexes :
        /\ Reads("getTimelinePostsRange", <<timelineId, startIndex, finishIndex>>,
                 Ok(Array(getTimelinePostsRange(db, timelineId, startIndex, finishIndex))))
        /\ UNCHANGED <<discussionsCreated, calls>>

GetTimelinePostsInTimeInterval ==
    \E timelineId \in TimelineIds, timeIntervalStart \in Times, timeIntervalEnd \in Times :
        /\ Reads("getTimelinePostsInTimeInterval",
                 <<timelineId, timeIntervalStart, timeIntervalEnd>>,
                 Ok(Array(getTimelinePostsInTimeInterval(db, timelineId,
                                                         timeIntervalStart, timeIntervalEnd))))
        /\ UNCHANGED <<discussionsCreated, calls>>

NextLikes ==
    \/ CreateUserPostLike
    \/ RemoveUserPostLike
    \/ DeletePostLikes
    \/ GetPostLikesCount
    \/ HasUserLikedPost
    \/ GetPostLikesRange
    \/ GetTimelinePostsRange
    \/ AddPostToTimelineOfAuthor
    \/ RemovePostFromTimelineOfAuthor
    \/ AwaitAnswer

SpecLikes == Init /\ [][NextLikes]_vars

NextRanges ==
    \/ AddPostToTimeline
    \/ RemovePostFromTimeline
    \/ GetTimelinePostsRange
    \/ GetTimelinePostsInTimeInterval
    \/ AwaitAnswer

SpecRanges == Init /\ [][NextRanges]_vars

(***************************************************************************)
(* The comment logs of posts.                                              *)
(***************************************************************************)
CommentIds == {Str("c1"), Str("c2")}

AddCommentToPost ==
    \E postId \in PostIds, commentId \in CommentIds :
        /\ getPostCommentsCount(db, postId) < MaxList
        /\ Writes("addCommentToPost", <<postId, commentId>>, Null,
                  [answer |-> Ok(Num(getPostCommentsCount(db, postId) + 1)),
                   db |-> addCommentToPost(db, postId, commentId)])
        /\ UNCHANGED <<discussionsCreated, calls>>

RemoveCommentFromPost ==
    \E postId \in PostIds, commentId \in CommentIds :
        /\ Writes("removeCommentFromPost", <<postId, commentId>>, Null,
                  [answer |-> Ok(Num(getPostCommentsCount(db, postId)
                                     - getPostCommentsCount(
                                           removeCommentFromPost(db, postId, commentId), postId))),
                   db |-> removeCommentFromPost(db, postId, commentId)])
        /\ UNCHANGED <<discussionsCreated, calls>>

DeletePostComments ==
    \E postId \in PostIds :
        /\ Writes("deletePostComments", <<postId>>, Null,
                  [answer |-> Ok(Num(_existsRecord(db, commentsKey(postId)))),
                   db |-> deletePostComments(db, postId)])
        /\ UNCHANGED <<discussionsCreated, calls>>

GetPostCommentsCount ==
    \E postId \in PostIds :
        /\ Reads("getPostCommentsCount", <<postId>>, Ok(Num(getPostCommentsCount(db, postId))))
        /\ UNCHANGED <<discussionsCreated, calls>>

GetPostCommentsRange ==
    \E postId \in PostIds, fromIndex \in FromIndexes, toIndex \in ToIndexes :
        /\ Reads("getPostCommentsRange", <<postId, fromIndex, toIndex>>,
                 Ok(Array(getPostCommentsRange(db, postId, fromIndex, toIndex))))
        /\ UNCHANGED <<discussionsCreated, calls>>

NextLists ==
    \/ AddCommentToPost
    \/ RemoveCommentFromPost
    \/ DeletePostComments
    \/ GetPostCommentsCount
    \/ GetPostCommentsRange
    \/ AwaitAnswer

SpecLists == Init /\ [][NextLists]_vars

NextTimelines ==
    \/ AddPostToTimeline
    \/ RemovePostFromTimeline
    \/ CreateMergedPostsTimeline
    \/ GetTimelinesIntersectionPostIds
    \/ AwaitAnswer

SpecTimelines == Init /\ [][NextTimelines]_vars

(***************************************************************************)
(* The updates of records.                                                 *)
(***************************************************************************)
UpdatePayloads ==
    {EmptyObject,
     [body |-> Str("edited")],
     [body |-> Str("edited"), updatedAt |-> Num(9)]}

UpdateUser ==
    \E userId \in Ids, payload \in {[screenName |-> Str("Al")], [username |-> Str("bob")]} :
        /\ Counted
        /\ Writes("updateUser", <<userId, payload>>, Null, updateUser(db, userId, payload))
        /\ UNCHANGED discussionsCreated

UpdatePost ==
    \E postId \in Ids, payload \in UpdatePayloads :
        /\ Counted
        /\ Writes("updatePost", <<postId, payload>>, Null, updatePost(db, postId, payload))
        /\ UNCHANGED discussionsCreated

UpdateComment ==
    \E commentId \in Ids, payload \in UpdatePayloads :
        /\ Counted
        /\ Writes("updateComment", <<commentId, payload>>, Null,
                  updateComment(db, commentId, payload))
        /\ UNCHANGED discussionsCreated

UpdateAttachment ==
    \E attachmentId \in Ids, payload \in {[fileSize |-> Num(11)]} :
        /\ Counted
        /\ Writes("updateAttachment", <<attachmentId, payload>>, Null,
                  updateAttachment(db, attachmentId, payload))
        /\ UNCHANGED discussionsCreated

SetPostUpdatedAt ==
    \E postId \in Ids, time \in {Num(8)} :
        /\ Counted
        /\ Writes("setPostUpdatedAt", <<postId, time>>, Null, setPostUpdatedAt(db, postId, time))
        /\ UNCHANGED discussionsCreated

SetUserPassword ==
    \E userId \in Ids, updatedAt \in {Num(8)}, hashedPassword \in {Str("h1"), Str("h2")} :
        /\ Counted
        /\ Writes("setUserPassword", <<userId, updatedAt, hashedPassword>>, Null,
                  setUserPassword(db, userId, updatedAt, hashedPassword))
        /\ UNCHANGED discussionsCreated

NextUpdates ==
    \/ CreatePost
    \/ UpdateUser
    \/ UpdatePost
    \/ UpdateComment
    \/ UpdateAttachment
    \/ SetPostUpdatedAt
    \/ SetUserPassword
    \/ AwaitAnswer

SpecUpdates == Init /\ [][NextUpdates]_vars

(***************************************************************************)
(* The handlers called with arguments of any type: a string, a number or   *)
(* nothing where an id or a name is expected.                              *)
(***************************************************************************)
AnyIds == {Str("i1"), Num(7), Undefined}

UserPayloadsOfAny ==
    {[type |-> Str("user")],
     [username |-> Num(7), type |-> Str("user")],
     [username |-> Str("alice"), type |-> Str("user")],
     [username |-> Str("alice"), type |-> Str("user"), email |-> Num(7)]}

TimelinePayloadsOfAny ==
    {[name |-> Str("Posts")]} \cup {[name |-> Str("Posts"), userId |-> u] : u \in AnyIds}

CreateUserOfAny ==
    \E userId \in Ids, payload \in UserPayloadsOfAny :
        /\ Counted
        /\ Writes("createUser", <<payload>>, userId, createUser(db, userId, payload))
        /\ UNCHANGED discussionsCreated

CreateTimelineOfAny ==
    \E timelineId \in Ids, payload \in TimelinePayloadsOfAny :
        /\ Counted
        /\ Writes("createTimeline", <<payload>>, timelineId,
                  createTimeline(db, timelineId, payload))
        /\ UNCHANGED discussionsCreated

CreateUserDiscussionsTimelineOfAny ==
    \E userId \in AnyIds, payload \in TimelinePayloadsOfAny :
        /\ Counted
        /\ Writes("createUserDiscussionsTimeline", <<userId, payload>>, Null,
                  createUserDiscussionsTimeline(db, userId, payload))
        /\ UNCHANGED discussionsCreated

UpdatePostOfAny ==
    \E postId \in AnyIds, payload \in PostPayloads :
        /\ Counted
        /\ Writes("updatePost", <<postId, payload>>, Null, updatePost(db, postId, payload))
        /\ UNCHANGED discussionsCreated

GetUserByIdOfAny ==
    \E id \in AnyIds :
        /\ Counted
        /\ Reads("getUserById", <<id>>, getUserById(db, id))
        /\ UNCHANGED discussionsCreated

GetPostByIdOfAny ==
    \E id \in AnyIds :
        /\ Counted
        /\ Reads("getPostById", <<id>>, getPostById(db, id))
        /\ UNCHANGED discussionsCreated

GetUserByResetTokenOfAny ==
    \E token \in AnyIds :
        /\ Counted
        /\ Reads("getUserByResetToken", <<token>>, getUserByResetToken(db, token))
        /\ UNCHANGED discussionsCreated

FindRecordsByIdsOfAny ==
    \E modelIds \in SeqsUpTo(AnyIds, 2) :
        /\ Counted
        /\ Reads("findRecordsByIds", <<"post", modelIds>>,
                 command({mkKey(<<Str("post"), modelIds[i]>>) : i \in 1..Len(modelIds)}, db,
                         Ok(Array(findRecordsByIds(db, "post", modelIds))), db).answer)
        /\ UNCHANGED discussionsCreated

AddPostToTimelineOfAny ==
    \E timelineId \in AnyIds, postId \in PostIds :
        /\ Counted
        /\ Writes("addPostToTimeline", <<timelineId, 1, postId>>, Null,
                  command({postsKey(timelineId)}, db, Ok(Num(1)),
                          addPostToTimeline(db, timelineId, 1, postId)))
        /\ UNCHANGED discussionsCreated

GetTimelinesIntersectionPostIdsOfAny ==
    \E random \in Ids, timelineId1 \in AnyIds, timelineId2 \in AnyIds :
        /\ Counted
        /\ Writes("getTimelinesIntersectionPostIds", <<timelineId1, timelineId2>>, random,
                  getTimelinesIntersectionPostIds(db, random, timelineId1, timelineId2))
        /\ UNCHANGED discussionsCreated

NextKeys ==
    \/ CreateUserOfAny
    \/ CreateTimelineOfAny
    \/ CreateUserDiscussionsTimelineOfAny
    \/ UpdatePostOfAny
    \/ GetUserByIdOfAny
    \/ GetPostByIdOfAny
    \/ GetUserByResetTokenOfAny
    \/ FindRecordsByIdsOfAny
    \/ AddPostToTimelineOfAny
    \/ GetTimelinesIntersectionPostIdsOfAny
    \/ AwaitAnswer

SpecKeys == Init /\ [][NextKeys]_vars

(***************************************************************************)
(* Calls served command by command.  A handler issues its commands to the  *)
(* one connection of the store, which answers them in the order of issue;  *)
(* between two commands of one call the store serves the other clients.    *)
(***************************************************************************)
\* the error of a command the store or the connection refused
StoreError == "store error"

\* a call at the point where it has issued its first commands
issue(op, args, uuid, commands) ==
    [NoTask EXCEPT !.op = op, !.args = args, !.uuid = uuid, !.pending = commands]

\* the number of commands the store has answered so far
RECURSIVE Answered(_, _)
Answered(ts, procs) ==
    IF procs = {} THEN 0
    ELSE LET p == CHOOSE q \in procs : TRUE
         IN  Len(ts[p].log) + Answered(ts, procs \ {p})

\* the store answered the command at the head of the queue, at position
\* `at` among all answers
answered(t, at, ok) ==
    [t EXCEPT !.pending = Tail(@),
              !.log = Append(@, [command |-> Head(t.pending), at |-> at, ok |-> ok])]

\* the promise of the call settles once
resolve(t, value) == IF t.settled THEN t ELSE [t EXCEPT !.settled = TRUE, !.res = value]

reject(t, message) == IF t.settled THEN t ELSE [t EXCEPT !.settled = TRUE, !.err = message]

\* throw: the handler issues nothing more
throw(t, message) == [reject(t, message) EXCEPT !.pending = <<>>]

\* await Promise.all(promises); return value
awaitAll(t, value) == IF t.pending = <<>> THEN resolve(t, value) ELSE t

\* the commands the store answered with an error
Refused(t) == {t.log[i].command : i \in {j \in 1..Len(t.log) : ~t.log[j].ok}}

\* the commands the store executed
Executed(t) == {t.log[i].command : i \in {j \in 1..Len(t.log) : t.log[j].ok}}

\* the position of the answer to a command of the call
AnsweredAt(t, c) == t.log[CHOOSE i \in 1..Len(t.log) : t.log[i].command = c].at

\* createUser after the store executed the command at the head of its queue
createUserStep(d, t, at) ==
    LET payload  == t.args[1]
        userId   == t.uuid
        username == Field(payload, "username")
        email    == Field(payload, "email")
        userKey  == mkKey(<<Str("user"), userId>>)
        c        == Head(t.pending)
        t1       == answered(t, at, TRUE)
    IN  CASE c = "exists" ->
               IF _existsRecord(d, userKey) # 0
               THEN [db |-> d, task |-> throw(t1, AlreadyExists)]
               ELSE IF mkKey(<<Str("username"), username, Str("uid")>>) = KeysError
               THEN [db |-> d, task |-> throw(t1, KeysError)]
               ELSE [db |-> d,
                     task |-> [t1 EXCEPT !.pending =
                                 <<"set username", "hmset user">>
                                 \o (IF hasEmail(email) THEN <<"set email">> ELSE <<>>)]]
          [] c = "set username" ->
               [db |-> _createUserUsernameIndex(d, userId, username),
                task |-> awaitAll(t1, userId)]
          [] c = "hmset user" ->
               [db |-> _createRecord(d, userKey, payload), task |-> awaitAll(t1, userId)]
          [] c = "set email" ->
               [db |-> createUserEmailIndex(d, userId, email), task |-> awaitAll(t1, userId)]

\* the keys createUser has written so far
createUserWritten(t) ==
    LET payload == t.args[1]
    IN  (IF "set username" \in Executed(t)
         THEN {mkKey(<<Str("username"), Field(payload, "username"), Str("uid")>>)} ELSE {})
        \cup (IF "hmset user" \in Executed(t) THEN {mkKey(<<Str("user"), t.uuid>>)} ELSE {})
        \cup (IF "set email" \in Executed(t)
              THEN {mkKey(<<Str("email"), _normalizeUserEmail(Field(payload, "email")),
                            Str("uid")>>)}
              ELSE {})

\* createUser that deletes what it wrote when one of its writes is refused
createUserRefusedCompensating(d, t, at) ==
    [db |-> [k \in DOMAIN d \ createUserWritten(t) |-> d[k]],
     task |-> throw(answered(t, at, FALSE), StoreError)]

\* createUser after the store refused the command at the head of its queue:
\* the probe is awaited alone, the writes are awaited together and stay
\* issued when one of them is refused
createUserRefused(d, t, at) ==
    IF Head(t.pending) = "exists"
    THEN [db |-> d, task |-> throw(answered(t, at, FALSE), StoreError)]
    ELSE [db |-> d, task |-> reject(answered(t, at, FALSE), StoreError)]

\* _createTimeline whose writes the store executes only while the timeline
\* record is still absent
_createTimelineStepConditional(d, t, at) ==
    LET userId      == t.args[1]
        payload     == t.args[2]
        timelineId  == getUserDiscussionsTimelineId(userId)
        timelineKey == mkKey(<<Str("timeline"), timelineId>>)
        c           == Head(t.pending)
        t1          == answered(t, at, TRUE)
    IN  IF _existsRecord(d, timelineKey) # 0
        THEN [db |-> d, task |-> throw(t1, AlreadyExists)]
        ELSE CASE c = "exists" ->
                    [db |-> d,
                     task |-> [t1 EXCEPT !.pending = <<"hmset names", "hmset timeline">>]]
               [] c = "hmset names" ->
                    [db |-> _createUserTimeline(d, userId, Field(payload, "name"), timelineId),
                     task |-> awaitAll(t1, timelineId)]
               [] c = "hmset timeline" ->
                    [db |-> _createRecord(d, timelineKey, payload),
                     task |-> awaitAll(t1, timelineId)]

\* createUserDiscussionsTimeline, that is _createTimeline with the id of the
\* account as timeline id, after the store executed the command at the head
\* of its queue
_createTimelineStep(d, t, at) ==
    LET userId      == t.args[1]
        payload     == t.args[2]
        timelineId  == getUserDiscussionsTimelineId(userId)
        timelineKey == mkKey(<<Str("timeline"), timelineId>>)
        name        == Field(payload, "name")
        c           == Head(t.pending)
        t1          == answered(t, at, TRUE)
    IN  CASE c = "exists" ->
               IF _existsRecord(d, timelineKey) # 0
               THEN [db |-> d, task |-> throw(t1, AlreadyExists)]
               ELSE IF mkKey(<<Str("user"), userId, Str("timelines")>>) = KeysError
               THEN [db |-> d, task |-> throw(t1, KeysError)]
               ELSE [db |-> d,
                     task |-> [t1 EXCEPT !.pending = <<"hmset names", "hmset timeline">>]]
          [] c = "hmset names" ->
               [db |-> _createUserTimeline(d, userId, name, timelineId),
                task |-> awaitAll(t1, timelineId)]
          [] c = "hmset timeline" ->
               IF hmsetFails(payload)
               THEN [db |-> d, task |-> awaitAll(reject(t1, HmsetError), timelineId)]
               ELSE [db |-> _createRecord(d, timelineKey, payload),
                     task |-> awaitAll(t1, timelineId)]

\* the keys _createTimeline has written so far
_createTimelineWritten(t) ==
    (IF "hmset names" \in Executed(t)
     THEN {mkKey(<<Str("user"), t.args[1], Str("timelines")>>)} ELSE {})
    \cup (IF "hmset timeline" \in Executed(t)
          THEN {mkKey(<<Str("timeline"), getUserDiscussionsTimelineId(t.args[1])>>)} ELSE {})

\* _createTimeline after the store refused the command at the head of its
\* queue
_createTimelineRefused(d, t, at) ==
    IF Head(t.pending) = "exists"
    THEN [db |-> d, task |-> throw(answered(t, at, FALSE), StoreError)]
    ELSE [db |-> d, task |-> reject(answered(t, at, FALSE), StoreError)]

\* a temporary key without the uuid
randomKeyOfTimeline(t) == mkKey(<<Str("timeline"), t.args[1], Str("random")>>)

\* the temporary key of a getTimelinesIntersectionPostIds call
randomKeyOf(t) == mkKey(<<Str("timeline"), t.args[1], Str("random"), t.uuid>>)

\* getTimelinesIntersectionPostIds after the store executed the command at
\* the head of its queue: each command is awaited before the next is issued
getTimelinesIntersectionPostIdsStep(d, t, at) ==
    LET timelineId1 == t.args[1]
        timelineId2 == t.args[2]
        randomKey   == randomKeyOf(t)
        c           == Head(t.pending)
        t1          == answered(t, at, TRUE)
    IN  CASE c = "zinterstore" ->
               [db |-> _getPostsTimelinesIntersection(d, randomKey, timelineId2, timelineId1),
                task |-> [t1 EXCEPT !.pending = <<"zrevrange">>]]
          [] c = "zrevrange" ->
               [db |-> d,
                task |-> [t1 EXCEPT !.postIds = Array(_getTimelinesIntersectionPosts(d, randomKey)),
                                    !.pending = <<"del">>]]
          [] c = "del" ->
               [db |-> _deleteRecord(d, randomKey), task |-> resolve(t1, t1.postIds)]

\* getTimelinesIntersectionPostIds that deletes its temporary key when a
\* command is refused, and answers what it has read when the delete is
getTimelinesIntersectionPostIdsRefusedReleasing(d, t, at) ==
    [db |-> _deleteRecord(d, randomKeyOf(t)),
     task |-> IF Head(t.pending) = "del"
              THEN [resolve(answered(t, at, FALSE), t.postIds) EXCEPT !.pending = <<>>]
              ELSE throw(answered(t, at, FALSE), StoreError)]

\* getTimelinesIntersectionPostIds after the store refused the command at
\* the head of its queue: the await throws and nothing more is issued
getTimelinesIntersectionPostIdsRefused(d, t, at) ==
    [db |-> d, task |-> throw(answered(t, at, FALSE), StoreError)]

\* the call after the store executed its next command
executes(d, t, at) ==
    CASE t.op = "createUser" -> createUserStep(d, t, at)
      [] t.op = "createUserDiscussionsTimeline" -> _createTimelineStep(d, t, at)
      [] t.op = "getTimelinesIntersectionPostIds" -> getTimelinesIntersectionPostIdsStep(d, t, at)

\* the call after the store refused its next command
refuses(d, t, at) ==
    CASE t.op = "createUser" -> createUserRefused(d, t, at)
      [] t.op = "createUserDiscussionsTimeline" -> _createTimelineRefused(d, t, at)
      [] t.op = "getTimelinesIntersectionPostIds" ->
           getTimelinesIntersectionPostIdsRefused(d, t, at)

\* uuid.v4() answers an id no call under way or done has
Fresh(id) == \A q \in Procs : tasks[q].uuid # id

Begins(p, task) ==
    /\ tasks[p].op = ""
    /\ tasks' = [tasks EXCEPT ![p] = task]
    /\ UNCHANGED <<db, pre, last, discussionsCreated, calls>>

StepUserPayloads ==
    {[username |-> Str("alice"), type |-> Str("user")],
     [username |-> Str("alice"), type |-> Str("user"), email |-> Str("A@x.org")]}

StepTimelinePayloads == {[name |-> n, userId |-> u] : n \in TimelineNames, u \in Ids}

StepTimelines == {Str("t1"), Str("t2")}

StartCreateUser(p) ==
    \E userId \in Ids, payload \in StepUserPayloads :
        /\ Fresh(userId)
        /\ Begins(p, issue("createUser", <<payload>>, userId, <<"exists">>))

StartCreateUserDiscussionsTimeline(p) ==
    \E userId \in Ids :
        \E payload \in {q \in StepTimelinePayloads : q.userId = userId} :
            Begins(p, issue("createUserDiscussionsTimeline", <<userId, payload>>, Null,
                            <<"exists">>))

StartGetTimelinesIntersectionPostIds(p) ==
    \E random \in Ids, timelineId1 \in StepTimelines, timelineId2 \in StepTimelines :
        /\ Fresh(random)
        /\ Begins(p, issue("getTimelinesIntersectionPostIds", <<timelineId1, timelineId2>>,
                           random, <<"zinterstore">>))

Answers(p, result) ==
    /\ db' = result.db
    /\ tasks' = [tasks EXCEPT ![p] = result.task]
    /\ UNCHANGED <<pre, last, discussionsCreated, calls>>

\* the store executes the next command of a call
StoreExecutes(p) ==
    /\ tasks[p].pending # <<>>
    /\ Answers(p, executes(db, tasks[p], Answered(tasks, Procs) + 1))

\* the store, or the connection to it, refuses the next command of a call
StoreRefuses(p) ==
    /\ tasks[p].pending # <<>>
    /\ Answers(p, refuses(db, tasks[p], Answered(tasks, Procs) + 1))

\* the stores that addPostToTimeline calls leave
RECURSIVE Posted(_, _, _)
Posted(d, timelineId, entries) ==
    IF entries = {} THEN d
    ELSE LET e == CHOOSE x \in entries : TRUE
         IN  Posted(addPostToTimeline(d, timelineId, e[2], e[1]), timelineId, entries \ {e})

\* each post absent, or posted at the least or at the greatest time
Registries ==
    {r \in SUBSET (PostIds \X {0, MaxScore}) : \A x \in r, y \in r : x[1] = y[1] => x = y}

RegistryStores ==
    {Posted(Posted(EmptyStore, Str("t1"), r1), Str("t2"), r2) : r1 \in Registries, r2 \in Registries}

InitRegistries ==
    /\ db \in RegistryStores
    /\ pre = db
    /\ last = Idle
    /\ discussionsCreated = [u \in Ids |-> 0]
    /\ calls = 0
    /\ tasks = [p \in Procs |-> NoTask]

\* two accounts' discussions timelines created by two clients at once
NextRace ==
    \/ \E p \in Procs : StartCreateUserDiscussionsTimeline(p)
    \/ \E p \in Procs : StoreExecutes(p)

SpecRace == Init /\ [][NextRace]_vars

\* creations against a store that may refuse any command
NextPartial ==
    \/ \E p \in Procs : StartCreateUser(p)
    \/ \E p \in Procs : StartCreateUserDiscussionsTimeline(p)
    \/ \E p \in Procs : StoreExecutes(p)
    \/ \E p \in Procs : StoreRefuses(p)

SpecPartial == Init /\ [][NextPartial]_vars

\* intersections against a store that may refuse any command
NextLeak ==
    \/ \E p \in Procs : StartGetTimelinesIntersectionPostIds(p)
    \/ \E p \in Procs : StoreExecutes(p)
    \/ \E p \in Procs : StoreRefuses(p)

SpecLeak == InitRegistries /\ [][NextLeak]_vars

\* intersections of two clients, every command executed
NextIntersections ==
    \/ \E p \in Procs : StartGetTimelinesIntersectionPostIds(p)
    \/ \E p \in Procs : StoreExecutes(p)

SpecIntersections == InitRegistries /\ [][NextIntersections]_vars

(***************************************************************************)
(* Presence tests over scores of either sign.                              *)
(***************************************************************************)
\* a time before the epoch, the epoch, and the latest time
SignedTimes == {-1, 0, MaxScore}

TestedPost == Str("p1")

TestedTimeline == Str("t1")

FollowedUser == Str("i1")

CreateUserPostLikeAtAnyTime ==
    \E now \in SignedTimes, userId \in Ids :
        /\ Writes("createUserPostLike", <<TestedPost, userId>>, Null,
                  [answer |-> Ok(Null), db |-> createUserPostLike(db, now, TestedPost, userId)])
        /\ UNCHANGED <<discussionsCreated, calls>>

AddPostToTimelineAtAnyTime ==
    \E time \in SignedTimes :
        /\ Writes("addPostToTimeline", <<TestedTimeline, time, TestedPost>>, Null,
                  [answer |-> Ok(Null),
                   db |-> addPostToTimeline(db, TestedTimeline, time, TestedPost)])
        /\ UNCHANGED <<discussionsCreated, calls>>

CreateUserSubscriptionRequestAtAnyTime ==
    \E currentUserId \in Ids, currentTime \in SignedTimes :
        /\ Writes("createUserSubscriptionRequest",
                  <<currentUserId, currentTime, FollowedUser>>, Null,
                  [answer |-> Ok(Null),
                   db |-> createUserSubscriptionRequest(db, currentUserId, currentTime,
                                                        FollowedUser)])
        /\ UNCHANGED <<discussionsCreated, calls>>

DeleteUserSubscriptionRequestOfFollowed ==
    \E followerUserId \in Ids :
        /\ Writes("deleteUserSubscriptionRequest", <<FollowedUser, followerUserId>>, Null,
                  [answer |-> Ok(Null),
                   db |-> deleteUserSubscriptionRequest(db, FollowedUser, followerUserId)])
        /\ UNCHANGED <<discussionsCreated, calls>>

IsPostPresentInTimeline ==
    \E postId \in PostIds :
        /\ Reads("isPostPresentInTimeline", <<TestedTimeline, postId>>,
                 Ok(isPostPresentInTimeline(db, TestedTimeline, postId)))
        /\ UNCHANGED <<discussionsCreated, calls>>

IsSubscriptionRequestPresent ==
    \E currentUserId \in Ids :
        /\ Reads("isSubscriptionRequestPresent", <<currentUserId, FollowedUser>>,
                 Ok(isSubscriptionRequestPresent(db, currentUserId, FollowedUser)))
        /\ UNCHANGED <<discussionsCreated, calls>>

NextPresence ==
    \/ CreateUserPostLikeAtAnyTime
    \/ RemoveUserPostLike
    \/ AddPostToTimelineAtAnyTime
    \/ RemovePostFromTimelineOfAuthor
    \/ CreateUserSubscriptionRequestAtAnyTime
    \/ DeleteUserSubscriptionRequestOfFollowed
    \/ HasUserLikedPost
    \/ IsPostPresentInTimeline
    \/ IsSubscriptionRequestPresent
    \/ AwaitAnswer

SpecPresence == Init /\ [][NextPresence]_vars

(***************************************************************************)
(* Batch lookups of accounts.                                              *)
(***************************************************************************)
GetFeedOwnersByIds ==
    \E ids \in SeqsUpTo(Ids, MaxBatch) :
        /\ Counted
        /\ Reads("getFeedOwnersByIds", <<ids>>, getFeedOwnersByIds(db, ids))
        /\ UNCHANGED discussionsCreated

GetUsersByIds ==
    \E userIds \in SeqsUpTo(Ids, MaxBatch) :
        /\ Counted
        /\ Reads("getUsersByIds", <<userIds>>, getUsersByIds(db, userIds))
        /\ UNCHANGED discussionsCreated

NextBatches ==
    \/ CreateUser
    \/ GetFeedOwnersByIds
    \/ GetUsersByIds
    \/ AwaitAnswer

SpecBatches == Init /\ [][NextBatches]_vars

(***************************************************************************)
(* Counters and leaderboards.                                              *)
(***************************************************************************)
Metrics == {Str("likes"), Str("posts"), Str("comments"), Str("subscribers"),
            Str("subscriptions")}

Deltas == {-1, 1}

ChangeUserStatsValue ==
    \E userId \in Ids, property \in Metrics, value \in Deltas :
        /\ Counted
        /\ Writes("changeUserStatsValue", <<userId, property, value>>, Null,
                  LET after == changeUserStatsValue(db, userId, property, value)
                  IN  [answer |-> Ok(Num(toInteger(after[statsKey(userId)].hash[property.str]))),
                       db |-> after])
        /\ UNCHANGED discussionsCreated

ChangeUserStats ==
    \E userId \in Ids, property \in Metrics, value \in Deltas :
        /\ Counted
        /\ Writes("changeUserStats", <<userId, property, value>>, Null,
                  LET after == changeUserStats(db, userId, property, value)
                  IN  [answer |-> Ok(Str(ToString(ScoreIn(zsetAt(after, leaderboardKey(property)),
                                                         userId.str)))),
                       db |-> after])
        /\ UNCHANGED discussionsCreated

NextStats ==
    \/ ChangeUserStatsValue
    \/ ChangeUserStats
    \/ AwaitAnswer

SpecStats == Init /\ [][NextStats]_vars

(***************************************************************************)
(* A post, what is kept about it, and their deletions.                     *)
(***************************************************************************)
Written(op, args, after) ==
    /\ Writes(op, args, Null, [answer |-> Ok(Null), db |-> after])
    /\ UNCHANGED <<discussionsCreated, calls>>

CreatePostOfAuthor ==
    /\ Writes("createPost", <<[body |-> Str("hello")]>>, TestedPost,
              createPost(db, TestedPost, [body |-> Str("hello")]))
    /\ UNCHANGED <<discussionsCreated, calls>>

DeletePost == Written("deletePost", <<TestedPost>>, deletePost(db, TestedPost))

LikePost ==
    Written("createUserPostLike", <<TestedPost, FollowedUser>>,
            createUserPostLike(db, MaxScore, TestedPost, FollowedUser))

CommentPost ==
    /\ getPostCommentsCount(db, TestedPost) < 1
    /\ Written("addCommentToPost", <<TestedPost, Str("c1")>>,
               addCommentToPost(db, TestedPost, Str("c1")))

AttachToPost ==
    /\ getPostAttachments(db, TestedPost) = <<>>
    /\ Written("addAttachmentToPost", <<TestedPost, Str("a1")>>,
               addAttachmentToPost(db, TestedPost, Str("a1")))

CreatePostUsageInTimeline ==
    Written("createPostUsageInTimeline", <<TestedPost, TestedTimeline>>,
            createPostUsageInTimeline(db, TestedPost, TestedTimeline))

CreatePostPostedTo ==
    \E timelineIds \in {Array(<<TestedTimeline>>), Array(<<TestedTimeline, Str("t2")>>)} :
        Written("createPostPostedTo", <<TestedPost, timelineIds>>,
                createPostPostedTo(db, TestedPost, timelineIds))

PostToTimeline ==
    Written("addPostToTimeline", <<TestedTimeline, MaxScore, TestedPost>>,
            addPostToTimeline(db, TestedTimeline, MaxScore, TestedPost))

DeletePostUsagesInTimelineIndex ==
    Written("deletePostUsagesInTimelineIndex", <<TestedPost>>,
            deletePostUsagesInTimelineIndex(db, TestedPost))

DeletePostPostedTo ==
    Written("deletePostPostedTo", <<TestedPost>>, deletePostPostedTo(db, TestedPost))

GetDeletedPostById ==
    /\ Reads("getPostById", <<TestedPost>>, getPostById(db, TestedPost))
    /\ UNCHANGED <<discussionsCreated, calls>>

NextPostDeletion ==
    \/ CreatePostOfAuthor
    \/ DeletePost
    \/ LikePost
    \/ CommentPost
    \/ AttachToPost
    \/ CreatePostUsageInTimeline
    \/ CreatePostPostedTo
    \/ PostToTimeline
    \/ DeletePostLikes
    \/ DeletePostComments
    \/ DeletePostUsagesInTimelineIndex
    \/ DeletePostPostedTo
    \/ RemovePostFromTimelineOfAuthor
    \/ GetDeletedPostById
    \/ GetTimelinePostsRange
    \/ AwaitAnswer

SpecPostDeletion == Init /\ [][NextPostDeletion]_vars

(***************************************************************************)
(* Subscription requests and pending requests.                             *)
(***************************************************************************)
\* the earliest and the latest time
RequestTimes == {0, MaxScore}

CreateUserSubscriptionRequest ==
    \E currentUserId \in Ids, currentTime \in RequestTimes, followedUserId \in Ids :
        Written("createUserSubscriptionRequest", <<currentUserId, currentTime, followedUserId>>,
                createUserSubscriptionRequest(db, currentUserId, currentTime, followedUserId))

DeleteUserSubscriptionRequest ==
    \E currentUserId \in Ids, followerUserId \in Ids :
        Written("deleteUserSubscriptionRequest", <<currentUserId, followerUserId>>,
                deleteUserSubscriptionRequest(db, currentUserId, followerUserId))

CreateUserSubscriptionPendingRequest ==
    \E currentUserId \in Ids, currentTime \in RequestTimes, followedUserId \in Ids :
        Written("createUserSubscriptionPendingRequest",
                <<currentUserId, currentTime, followedUserId>>,
                createUserSubscriptionPendingRequest(db, currentUserId, currentTime,
                                                     followedUserId))

DeleteUserSubscriptionPendingRequest ==
    \E currentUserId \in Ids, followerUserId \in Ids :
        Written("deleteUserSubscriptionPendingRequest", <<currentUserId, followerUserId>>,
                deleteUserSubscriptionPendingRequest(db, currentUserId, followerUserId))

NextRequests ==
    \/ CreateUserSubscriptionRequest
    \/ DeleteUserSubscriptionRequest
    \/ CreateUserSubscriptionPendingRequest
    \/ DeleteUserSubscriptionPendingRequest
    \/ IsSubscriptionRequestPresent
    \/ AwaitAnswer

SpecRequests == Init /\ [][NextRequests]_vars

(***************************************************************************)
(* The key composer on its own.                                            *)
(***************************************************************************)
\* longest list of segments given to mkKey
MaxSegments == 3

\* an entity kind, an id, a sub-index, an id that holds the delimiter, and
\* the empty string
SegmentValues ==
    {Str("user"), Str("i1"), Str("timelines"), Str("i1:timelines"), Str("")}

SegmentLists == SeqsUpTo(SegmentValues, MaxSegments)

ComposeKey ==
    \E keys \in SegmentLists :
        /\ Reads("mkKey", <<Array(keys)>>, Ok(Str(mkKey(keys))))
        /\ UNCHANGED <<discussionsCreated, calls>>

NextComposer ==
    \/ ComposeKey
    \/ AwaitAnswer

SpecComposer == Init /\ [][NextComposer]_vars

Next ==
    NextRecords \/ NextLookups \/ NextUpdates \/ NextKeys \/ NextLikes \/ NextRanges
        \/ NextLists \/ NextTimelines \/ NextRace \/ NextPartial \/ NextLeak \/ NextIntersections \/ NextPresence \/ NextBatches \/ NextStats \/ NextPostDeletion \/ NextRequests \/ NextComposer

Spec == Init /\ [][Next]_vars

(***************************************************************************)
(* Properties.                                                             *)
(***************************************************************************)
userKey(userId) == mkKey(<<Str("user"), userId>>)

usernameKey(username) == mkKey(<<Str("username"), username, Str("uid")>>)

timelineKey(timelineId) == mkKey(<<Str("timeline"), timelineId>>)

Succeeded(op) == last.op = op /\ last.err = ""

\* some account of store d holds username, letter case apart
UsernameTaken(d, username) ==
    \E id \in Ids :
        /\ userKey(id) \in DOMAIN d
        /\ LowerString(d[userKey(id)].hash["username"]) = LowerString(username.str)

\* C1 as stated: the accounts created hold usernames that differ after
\* lower-casing, and a createUser whose username, letter case apart, is held
\* by an account fails with 'Already exists'.
C1_UsernamesUnique ==
    /\ \A i \in Ids, j \in Ids :
           (i # j /\ userKey(i) \in DOMAIN db /\ userKey(j) \in DOMAIN db)
               => LowerString(db[userKey(i)].hash["username"])
                      # LowerString(db[userKey(j)].hash["username"])
    /\ (last.op = "createUser" /\ UsernameTaken(pre, last.args[1]["username"]))
           => last.err = AlreadyExists

\* C1 amended: createUser fails with 'Already exists' exactly when the id it
\* drew already has a user record, whatever the username; a call that
\* succeeds answers an id that had no record, leaves a record under it and
\* the index entry of its username, as written, pointing to that id.
C1_IdsUnique ==
    last.op = "createUser" =>
        /\ (last.err = AlreadyExists) <=> (userKey(last.uuid) \in DOMAIN pre)
        /\ last.err = "" =>
               /\ last.res = last.uuid
               /\ userKey(last.res) \notin DOMAIN pre
               /\ userKey(last.res) \in DOMAIN db
               /\ getUserIdByUsername(db, last.args[1]["username"]) = last.res

\* a createUser succeeded with a username that an account already held
C1_TakenUsernameCreated ==
    /\ Succeeded("createUser")
    /\ UsernameTaken(pre, last.args[1]["username"])

GuardedCreates ==
    {"createUser", "createPost", "createComment", "createAttachment",
     "createTimeline", "createUserDiscussionsTimeline"}

\* the primary record key of the guarded create in last
PrimaryKey ==
    CASE last.op = "createUser" -> userKey(last.uuid)
      [] last.op = "createPost" -> mkKey(<<Str("post"), last.uuid>>)
      [] last.op = "createComment" -> mkKey(<<Str("comment"), last.uuid>>)
      [] last.op = "createAttachment" -> mkKey(<<Str("attachment"), last.uuid>>)
      [] last.op = "createTimeline" -> timelineKey(last.uuid)
      [] last.op = "createUserDiscussionsTimeline" -> timelineKey(last.args[1])

\* C2: a guarded create whose primary record key exists fails with
\* 'Already exists' and leaves every key of the store as it was.
C2_ConflictWritesNothing ==
    (last.op \in GuardedCreates /\ PrimaryKey \in DOMAIN pre)
        => (last.err = AlreadyExists /\ db = pre)

\* a timeline create failed on an existing id, for an owner whose name record
\* did not hold the name it was given
C2_TimelineConflict ==
    /\ last.op \in {"createTimeline", "createUserDiscussionsTimeline"}
    /\ last.err = AlreadyExists
    /\ LET payload == last.args[Len(last.args)]
           owner   == IF last.op = "createTimeline" THEN payload["userId"] ELSE last.args[1]
       IN  Field(getUserTimelinesIds(pre, owner), payload["name"].str) = Undefined

\* C3: the discussions timeline id of account X is X, a successful
\* createUserDiscussionsTimeline(X, payload) answers X, at most one such call
\* per X succeeds and a call made when the timeline record of X exists fails
\* with 'Already exists'.
C3_DiscussionsSingleton ==
    /\ \A userId \in Ids : getUserDiscussionsTimelineId(userId) = userId
    /\ \A userId \in Ids : discussionsCreated[userId] <= 1
    /\ last.op = "createUserDiscussionsTimeline" =>
           /\ last.err = "" => last.res = last.args[1]
           /\ timelineKey(last.args[1]) \in DOMAIN pre => last.err = AlreadyExists

\* a second createUserDiscussionsTimeline for an account failed
C3_SecondCallFails ==
    /\ last.op = "createUserDiscussionsTimeline"
    /\ last.err = AlreadyExists
    /\ discussionsCreated[last.args[1]] = 1

\* the entries of member in a sorted set
EntriesOf(zs, member) == {e \in zs : e[1] = member}

\* C4: after addPostToTimeline(T, s, P) the registry of T holds exactly one
\* entry of P, with score s, and one entry more than before if P was not in
\* it, as many as before if it was.
C4_UpsertKeepsOneEntry ==
    last.op = "addPostToTimeline" =>
        LET before == zsetAt(pre, postsKey(last.args[1]))
            after  == zsetAt(db, postsKey(last.args[1]))
            member == last.args[3].str
        IN  /\ EntriesOf(after, member) = {<<member, last.args[2]>>}
            /\ Cardinality(after) =
                   Cardinality(before) + (IF EntriesOf(before, member) = {} THEN 1 ELSE 0)

\* a post was added again with another score
C4_AddedAgain ==
    /\ last.op = "addPostToTimeline"
    /\ \E e \in zsetAt(pre, postsKey(last.args[1])) :
           e[1] = last.args[3].str /\ e[2] # last.args[2]

EntityCreates ==
    {"createUser", "createPost", "createComment", "createAttachment",
     "createTimeline", "createUserDiscussionsTimeline"}

\* the get-by-id that matches the create in last, on the store as it is
MatchingGet ==
    CASE last.op = "createUser" -> getFeedOwnerById(db, last.res)
      [] last.op = "createPost" -> getPostById(db, last.res)
      [] last.op = "createComment" -> getCommentById(db, last.res)
      [] last.op = "createAttachment" -> getAttachmentById(db, last.res)
      [] last.op = "createTimeline" -> getTimelineById(db, last.res)
      [] last.op = "createUserDiscussionsTimeline" -> getTimelineById(db, last.res)

\* C5 as stated: after a successful create the matching get-by-id answers
\* an object whose attributes are the written fields, as written, plus id.
C5_RoundTripAsWritten ==
    (last.op \in EntityCreates /\ last.err = "") =>
        LET payload == last.args[Len(last.args)]
        IN  /\ MatchingGet.err = ""
            /\ MatchingGet.res # Null
            /\ MatchingGet.res.attrs =
                   [f \in DOMAIN payload \cup {"id"} |->
                       IF f = "id" THEN last.res ELSE payload[f]]

\* C5 amended: the attributes are the written fields, each value in its
\* string form, with id set to the id that create answered.
C5_RoundTripAsStrings ==
    (last.op \in EntityCreates /\ last.err = "") =>
        LET payload == last.args[Len(last.args)]
        IN  /\ MatchingGet.err = ""
            /\ MatchingGet.res # Null
            /\ MatchingGet.res.attrs =
                   [f \in DOMAIN payload \cup {"id"} |->
                       IF f = "id" THEN last.res ELSE Str(toWire(payload[f]))]

\* a record was created from a payload with a value that is no string
C5_NumberWritten ==
    /\ last.op \in EntityCreates
    /\ last.err = ""
    /\ \E f \in DOMAIN last.args[Len(last.args)] : ~isString(last.args[Len(last.args)][f])

\* C6: findRecordsByIds(kind, ids) answers a list as long as ids whose i-th
\* entry is the stored fields of ids[i], or null when ids[i] has no record.
C6_BatchKeepsOrder ==
    last.op = "findRecordsByIds" =>
        LET modelIds == last.args[2]
            answers  == last.res.array
            key(i)   == mkKey(<<Str(last.args[1]), modelIds[i]>>)
        IN  /\ last.err = ""
            /\ Len(answers) = Len(modelIds)
            /\ \A i \in 1..Len(modelIds) :
                   IF key(i) \in DOMAIN pre
                   THEN /\ answers[i] # Null
                        /\ DOMAIN answers[i] = DOMAIN pre[key(i)].hash
                        /\ \A f \in DOMAIN answers[i] : answers[i][f] = Str(pre[key(i)].hash[f])
                   ELSE answers[i] = Null

\* a batch read of a known id, an unknown id and the known id again
C6_KnownUnknownKnown ==
    /\ last.op = "findRecordsByIds"
    /\ Len(last.args[2]) = 3
    /\ last.args[2][1] = last.args[2][3]
    /\ mkKey(<<Str(last.args[1]), last.args[2][1]>>) \in DOMAIN pre
    /\ mkKey(<<Str(last.args[1]), last.args[2][2]>>) \notin DOMAIN pre

\* C7: after createMergedPostsTimeline(dest, A, B) the registry of dest holds
\* one entry for every post of A or B as they were, no other post, and the
\* score of each is the greatest score the post had in A and B.
C7_MergeIsUnionWithMax ==
    last.op = "createMergedPostsTimeline" =>
        LET dest == zsetAt(db, postsKey(last.args[1]))
            A    == zsetAt(pre, postsKey(last.args[2]))
            B    == zsetAt(pre, postsKey(last.args[3]))
        IN  /\ Members(dest) = Members(A) \cup Members(B)
            /\ Cardinality(dest) = Cardinality(Members(dest))
            /\ \A e \in dest :
                   /\ e \in A \cup B
                   /\ \A f \in A \cup B : f[1] = e[1] => f[2] <= e[2]
            /\ \A k \in DOMAIN pre \cup DOMAIN db :
                   k # postsKey(last.args[1]) => (k \in DOMAIN pre /\ k \in DOMAIN db /\ db[k] = pre[k])

\* a merge of two different timelines into a third that held a post of
\* neither, with a post that had one score in A and another in B
C7_MergeOverStaleDestination ==
    /\ last.op = "createMergedPostsTimeline"
    /\ Cardinality({last.args[1], last.args[2], last.args[3]}) = 3
    /\ LET dest == zsetAt(pre, postsKey(last.args[1]))
           A    == zsetAt(pre, postsKey(last.args[2]))
           B    == zsetAt(pre, postsKey(last.args[3]))
       IN  /\ Members(dest) \ (Members(A) \cup Members(B)) # {}
           /\ \E a \in A, b \in B : a[1] = b[1] /\ a[2] # b[2]

\* the post ids of an answered array, as a set of strings
AnsweredIds(answer) == {answer.res.array[i].str : i \in 1..Len(answer.res.array)}

\* C8: getTimelinesIntersectionPostIds(A, B) answers the posts that are in
\* the registries of both A and B, each once, an empty list when there is
\* none, and the same set of posts for (B, A).
C8_IntersectionIsCommonPosts ==
    last.op = "getTimelinesIntersectionPostIds" =>
        LET A      == zsetAt(pre, postsKey(last.args[1]))
            B      == zsetAt(pre, postsKey(last.args[2]))
            common == Members(A) \cap Members(B)
        IN  /\ last.err = ""
            /\ AnsweredIds(last) = common
            /\ Len(last.res.array) = Cardinality(common)
            /\ common = {} => last.res.array = <<>>
            /\ AnsweredIds(getTimelinesIntersectionPostIds(
                               pre, last.uuid, last.args[2], last.args[1]).answer)
                   = AnsweredIds(last)

\* an intersection of two timelines that share a post and where the first
\* holds a post the second does not
C8_PartialOverlap ==
    /\ last.op = "getTimelinesIntersectionPostIds"
    /\ LET A == Members(zsetAt(pre, postsKey(last.args[1])))
           B == Members(zsetAt(pre, postsKey(last.args[2])))
       IN  A \cap B # {} /\ A \ B # {}

\* key starts with prefix
HasPrefix(key, prefix) ==
    Len(key) >= Len(prefix) /\ SubSeq(key, 1, Len(prefix)) = prefix

\* the keys of store d under 'timeline:<id>:random:'
TemporaryKeys(d) ==
    {k \in DOMAIN d :
        \E t \in TimelineIds : HasPrefix(k, mkKey(<<Str("timeline"), t, Str("random"), Str("")>>))}

\* C9: after a getTimelinesIntersectionPostIds that answered, the temporary
\* key is gone, no key under 'timeline:<id>:random:' is left and the store
\* holds the keys and values it held before the call.
C9_IntersectionLeavesStoreAsItWas ==
    Succeeded("getTimelinesIntersectionPostIds") =>
        /\ mkKey(<<Str("timeline"), last.args[1], Str("random"), last.uuid>>) \notin DOMAIN db
        /\ TemporaryKeys(db) = {}
        /\ db = pre

\* an intersection that answered at least one post, so that its temporary
\* key was a key of the store in between
C9_TemporaryKeyWasWritten ==
    /\ Succeeded("getTimelinesIntersectionPostIds")
    /\ last.res.array # <<>>

\* the stored record that a lookup by expected variant resolves to: the
\* record of the id, or the one its username index entry points to
ResolvedRecord ==
    IF last.op \in {"getUserById", "getGroupById"}
    THEN _getRecord(pre, userKey(last.args[1]))
    ELSE LET identifier == _getIndexValue(pre, usernameKey(toLowerCase(last.args[1])))
         IN  IF identifier = Null THEN Null ELSE _getRecord(pre, userKey(identifier))

IndexKey ==
    CASE last.op \in {"getFeedOwnerByUsername", "getUserByUsername"} ->
             usernameKey(toLowerCase(last.args[1]))
      [] last.op = "getUserByEmail" ->
             mkKey(<<Str("email"), toLowerCase(last.args[1]), Str("uid")>>)
      [] last.op = "getUserByResetToken" ->
             mkKey(<<Str("reset"), last.args[1], Str("uid")>>)

ReadsById == {"getFeedOwnerById", "getUserById", "getPostById"}

ReadsByIndex ==
    {"getFeedOwnerByUsername", "getUserByUsername", "getUserByEmail", "getUserByResetToken"}

\* the index entry of a lookup in last is there and names an id without record
DanglingIndex ==
    /\ last.op \in ReadsByIndex
    /\ IndexKey \in DOMAIN pre
    /\ userKey(Str(pre[IndexKey].string)) \notin DOMAIN pre

\* the target of the read in last does not exist
TargetMissing ==
    \/ last.op \in {"getFeedOwnerById", "getUserById"} /\ userKey(last.args[1]) \notin DOMAIN pre
    \/ last.op = "getPostById" /\ mkKey(<<Str("post"), last.args[1]>>) \notin DOMAIN pre
    \/ last.op \in ReadsByIndex /\ IndexKey \notin DOMAIN pre
    \/ DanglingIndex

\* C11: a read of one entity whose target does not exist (no record under
\* the id, no index entry for the username, email or reset token, or an
\* index entry naming an id without record) answers null and raises no error.
C11_MissingTargetAnswersNull ==
    TargetMissing => (last.err = "" /\ last.res = Null)

\* a lookup by reset token or email found an index entry whose id has no
\* record
C11_DanglingIndexRead ==
    /\ last.op \in {"getUserByResetToken", "getUserByEmail"}
    /\ DanglingIndex

\* the values the call in last composes keys from
KeySegments ==
    CASE last.op = "createUser" -> {Field(last.args[1], "username")}
      [] last.op = "createTimeline" -> {Field(last.args[1], "userId")}
      [] last.op = "createUserDiscussionsTimeline" -> {last.args[1]}
      [] last.op \in {"updatePost", "getUserById", "getPostById", "getUserByResetToken",
                      "addPostToTimeline"} -> {last.args[1]}
      [] last.op = "findRecordsByIds" -> {last.args[2][i] : i \in 1..Len(last.args[2])}
      [] last.op = "getTimelinesIntersectionPostIds" -> {last.args[1], last.args[2]}
      [] OTHER -> {}

\* the call in last composed a key from a value that is no string
NonStringSegment == \E segment \in KeySegments : ~isString(segment)

\* C12 as stated: an operation that composes a key from a non-string segment
\* fails with 'keys should be strings' before it issued any store command,
\* and the store is as it was.
C12_ValidationBeforeAnyCommand ==
    NonStringSegment => (last.err = KeysError /\ last.after = <<>> /\ db = pre)

\* what holds of every such call: it fails, with 'keys should be strings' or,
\* in a guarded create whose id has a record, with 'Already exists', and it
\* leaves the store as it was
NonStringSegmentWritesNothing ==
    NonStringSegment => (last.err \in {KeysError, AlreadyExists} /\ db = pre)

UpdateOps ==
    {"updateUser", "updatePost", "updateComment", "updateAttachment",
     "setPostUpdatedAt", "setUserPassword"}

\* the record key of the update in last
UpdatedKey ==
    CASE last.op \in {"updateUser", "setUserPassword"} -> userKey(last.args[1])
      [] last.op \in {"updatePost", "setPostUpdatedAt"} -> mkKey(<<Str("post"), last.args[1]>>)
      [] last.op = "updateComment" -> mkKey(<<Str("comment"), last.args[1]>>)
      [] last.op = "updateAttachment" -> mkKey(<<Str("attachment"), last.args[1]>>)

\* the fields the update in last was given, by name
UpdatedFields ==
    CASE last.op = "setPostUpdatedAt" -> [updatedAt |-> last.args[2]]
      [] last.op = "setUserPassword" ->
             [updatedAt |-> last.args[2], hashedPassword |-> last.args[3]]
      [] OTHER -> last.args[2]

\* the stored fields of key in store d, none when d has no such key
StoredFields(d, key) == IF key \in DOMAIN d THEN d[key].hash ELSE EmptyObject

\* C13: an update given at least one field succeeds whether or not a record
\* exists at the id; afterwards the record holds the given fields with the
\* new values (in their stored, string form) and every other field it held
\* with the value it had, so a record that did not exist holds just the
\* given fields; no other key changes.
C13_UpdateMerges ==
    (last.op \in UpdateOps /\ DOMAIN UpdatedFields # {}) =>
        LET before == StoredFields(pre, UpdatedKey)
            after  == StoredFields(db, UpdatedKey)
        IN  /\ last.err = ""
            /\ UpdatedKey \in DOMAIN db
            /\ DOMAIN after = DOMAIN before \cup DOMAIN UpdatedFields
            /\ \A f \in DOMAIN UpdatedFields : after[f] = toWire(UpdatedFields[f])
            /\ \A f \in DOMAIN before \ DOMAIN UpdatedFields : after[f] = before[f]
            /\ \A k \in (DOMAIN pre \cup DOMAIN db) \ {UpdatedKey} :
                   k \in DOMAIN pre /\ k \in DOMAIN db /\ db[k] = pre[k]

\* an update changed a field of a record and kept another that it did not
\* name
C13_FieldKeptFieldChanged ==
    /\ last.op \in UpdateOps
    /\ UpdatedKey \in DOMAIN pre
    /\ DOMAIN pre[UpdatedKey].hash \ DOMAIN UpdatedFields # {}
    /\ \E f \in DOMAIN UpdatedFields \cap DOMAIN pre[UpdatedKey].hash :
           pre[UpdatedKey].hash[f] # toWire(UpdatedFields[f])

\* the accounts that hasUserLikedPost takes to have liked postId in store d
Likers(d, postId) == {userId \in Ids : truthy(hasUserLikedPost(d, userId, postId))}

\* what getTimelinePostsRange(timelineId, 0, -1) lists in store d
Listed(d, timelineId) == getTimelinePostsRange(d, timelineId, 0, -1)

ElementsOf(seq) == {seq[i] : i \in 1..Len(seq)}

\* C14: the accounts that hasUserLikedPost answers truthy for are those whose
\* like was made and not removed since: createUserPostLike adds the account,
\* removeUserPostLike takes it out, deletePostLikes takes all out, no other
\* call changes them, and getPostLikesCount is their number; the posts that
\* getTimelinePostsRange(T, 0, -1) lists, each once, are those added to T and
\* not removed since.
C14_LikesAndPostsFollowCalls ==
    /\ \A postId \in LikedPosts :
           /\ getPostLikesCount(db, postId) = Cardinality(Likers(db, postId))
           /\ Likers(db, postId) =
                  IF last.op = "createUserPostLike" /\ last.args[1] = postId
                  THEN Likers(pre, postId) \cup {last.args[2]}
                  ELSE IF last.op = "removeUserPostLike" /\ last.args[1] = postId
                  THEN Likers(pre, postId) \ {last.args[2]}
                  ELSE IF last.op = "deletePostLikes" /\ last.args[1] = postId
                  THEN {}
                  ELSE Likers(pre, postId)
    /\ \A timelineId \in TimelineIds :
           /\ Len(Listed(db, timelineId)) = Cardinality(ElementsOf(Listed(db, timelineId)))
           /\ ElementsOf(Listed(db, timelineId)) =
                  IF last.op = "addPostToTimeline" /\ last.args[1] = timelineId
                  THEN ElementsOf(Listed(pre, timelineId)) \cup {last.args[3]}
                  ELSE IF last.op = "removePostFromTimeline" /\ last.args[1] = timelineId
                  THEN ElementsOf(Listed(pre, timelineId)) \ {last.args[2]}
                  ELSE ElementsOf(Listed(pre, timelineId))
    /\ last.op = "getPostLikesCount" => last.res = Num(Cardinality(Likers(pre, last.args[1])))
    /\ last.op = "hasUserLikedPost" =>
           (truthy(last.res) <=> last.args[1] \in Likers(pre, last.args[2]))

\* hasUserLikedPost answered true for an account whose like of the post has
\* time 0, the post having that one like and being the one post of a timeline
C14_LikedAgainAtTimeZero ==
    /\ last.op = "hasUserLikedPost"
    /\ last.res = Bool(TRUE)
    /\ getUserPostLikedTime(db, last.args[1], last.args[2]) = Str("0")
    /\ getPostLikesCount(db, last.args[2]) = 1
    /\ \E timelineId \in TimelineIds : Listed(db, timelineId) = <<last.args[2]>>

RangeReads == {"getTimelinePostsRange", "getPostLikesRange"}

\* the sorted set that the range read in last reads, as it was
RangeRead ==
    IF last.op = "getTimelinePostsRange" THEN zsetAt(pre, postsKey(last.args[1]))
    ELSE zsetAt(pre, likesKey(last.args[1]))

\* C15: a read by rank answers members of the sorted set, none twice, in an
\* order in which scores do not increase, so that a member with a greater
\* score (added later, when scores are insertion times) comes before one
\* with a smaller; with from = 0 and to = -1 it answers every member.
C15_RangeIsDescending ==
    last.op \in RangeReads =>
        LET answer == last.res.array
        IN  /\ last.err = ""
            /\ \A i \in 1..Len(answer) : answer[i].str \in Members(RangeRead)
            /\ \A i \in 1..Len(answer), j \in 1..Len(answer) :
                   i < j => /\ answer[i] # answer[j]
                            /\ ScoreIn(RangeRead, answer[i].str) >= ScoreIn(RangeRead, answer[j].str)
            /\ (last.args[2] = 0 /\ last.args[3] = -1) =>
                   {answer[i].str : i \in 1..Len(answer)} = Members(RangeRead)

\* a read of the whole of a sorted set whose members have different scores
C15_TwoScoresRead ==
    /\ last.op \in RangeReads
    /\ last.args[2] = 0
    /\ last.args[3] = -1
    /\ Len(last.res.array) = 2
    /\ ScoreIn(RangeRead, last.res.array[1].str) > ScoreIn(RangeRead, last.res.array[2].str)

\* C16 as stated: getTimelinePostsInTimeInterval(T, start, end) with
\* start <= end answers exactly the posts of T whose score s satisfies
\* start <= s <= end.
C16_WindowFromStartToEnd ==
    (last.op = "getTimelinePostsInTimeInterval" /\ last.args[2] <= last.args[3]) =>
        {last.res.array[i].str : i \in 1..Len(last.res.array)}
            = {e[1] : e \in {f \in zsetAt(pre, postsKey(last.args[1])) :
                                 last.args[2] <= f[2] /\ f[2] <= last.args[3]}}

\* what the code answers: the posts with end <= s <= start, none twice
WindowFromEndToStart ==
    last.op = "getTimelinePostsInTimeInterval" =>
        /\ {last.res.array[i].str : i \in 1..Len(last.res.array)}
               = {e[1] : e \in {f \in zsetAt(pre, postsKey(last.args[1])) :
                                    last.args[3] <= f[2] /\ f[2] <= last.args[2]}}
        /\ \A i \in 1..Len(last.res.array), j \in 1..Len(last.res.array) :
               i < j => last.res.array[i] # last.res.array[j]

\* the comment log of postId in store d, as getPostCommentsRange lists it
Comments(d, postId) == getPostCommentsRange(d, postId, 0, -1)

\* how many entries of a list equal value
Occurrences(list, value) == Cardinality({i \in 1..Len(list) : list[i] = value})

\* C17: removeCommentFromPost(P, c) takes out of the comment log of P the
\* first entry, from the head, that equals c and no other: the entries
\* before and after it stay, in their order, the count drops by one and one
\* occurrence of c less remains; when c is not in the log the log is as it
\* was.  addCommentToPost(P, c) puts c at the tail.  No other log changes.
C17_RemovesFirstOccurrence ==
    /\ last.op = "removeCommentFromPost" =>
           LET before == Comments(pre, last.args[1])
               after  == Comments(db, last.args[1])
               c      == last.args[2]
           IN  /\ Occurrences(before, c) = 0 => after = before
               /\ Occurrences(before, c) >= 1 =>
                      /\ getPostCommentsCount(db, last.args[1])
                             = getPostCommentsCount(pre, last.args[1]) - 1
                      /\ Occurrences(after, c) = Occurrences(before, c) - 1
                      /\ \E i \in 1..Len(before) :
                             /\ before[i] = c
                             /\ \A j \in 1..(i - 1) : before[j] # c
                             /\ after = SubSeq(before, 1, i - 1)
                                            \o SubSeq(before, i + 1, Len(before))
               /\ \A postId \in PostIds \ {last.args[1]} :
                      Comments(db, postId) = Comments(pre, postId)
    /\ last.op = "addCommentToPost" =>
           /\ Comments(db, last.args[1]) = Append(Comments(pre, last.args[1]), last.args[2])
           /\ \A postId \in PostIds \ {last.args[1]} :
                  Comments(db, postId) = Comments(pre, postId)

\* a comment that the log held twice, with another comment in between, was
\* removed once
C17_RemovedOneOfTwo ==
    /\ last.op = "removeCommentFromPost"
    /\ LET before == Comments(pre, last.args[1])
       IN  /\ Len(before) = 3
           /\ before[1] = last.args[2]
           /\ before[2] # last.args[2]
           /\ before[3] = last.args[2]

(***************************************************************************)
(* Creation raced by two clients.                                          *)
(***************************************************************************)
\* the calls of handler op under way or done
TasksOf(op) == {p \in Procs : tasks[p].op = op}

\* the call has been answered and has nothing left with the store
Finished(t) == t.settled /\ t.pending = <<>>

\* the two createUserDiscussionsTimeline calls are for one account, both
\* finished without error
BothCreated(p, q) ==
    /\ p # q
    /\ {p, q} \subseteq TasksOf("createUserDiscussionsTimeline")
    /\ tasks[p].args[1] = tasks[q].args[1]
    /\ Finished(tasks[p]) /\ tasks[p].err = ""
    /\ Finished(tasks[q]) /\ tasks[q].err = ""

\* C18: the probe and the writes of _createTimeline are separate commands:
\* a createUserDiscussionsTimeline call fails with "Already exists" only on
\* the answer of its own probe, so a call whose probe answered 0 issues both
\* writes and succeeds with the id whatever the other client wrote in
\* between; when two calls for one account both finish without error, which
\* happens when both probes are answered before either record write, the
\* timeline record holds the payload of the call whose record write the
\* store executed later and the name record holds the names of both.
C18_BothPassTheProbe ==
    /\ \A p \in TasksOf("createUserDiscussionsTimeline") :
           LET t == tasks[p]
           IN  /\ t.err = AlreadyExists => Executed(t) = {"exists"} /\ t.pending = <<>>
               /\ t.err \in {"", AlreadyExists}
               /\ Finished(t) /\ t.err = "" =>
                      /\ t.res = getUserDiscussionsTimelineId(t.args[1])
                      /\ Executed(t) = {"exists", "hmset names", "hmset timeline"}
    /\ \A p \in Procs, q \in Procs :
           BothCreated(p, q)
           /\ AnsweredAt(tasks[p], "hmset timeline") < AnsweredAt(tasks[q], "hmset timeline") =>
               LET userId == tasks[p].args[1]
                   id     == getUserDiscussionsTimelineId(userId)
               IN  /\ StoredFields(db, mkKey(<<Str("timeline"), id>>))
                          = [f \in DOMAIN tasks[q].args[2] |-> toWire(tasks[q].args[2][f])]
                   /\ StoredFields(db, mkKey(<<Str("user"), userId, Str("timelines")>>))
                          = [f \in {toWire(tasks[p].args[2].name), toWire(tasks[q].args[2].name)}
                                |-> toWire(id)]

\* two calls for one account with different names both succeeded, the probe
\* of each answered before the record write of the other
C18_BothSucceeded ==
    \E p \in Procs, q \in Procs :
        /\ BothCreated(p, q)
        /\ tasks[p].args[2].name # tasks[q].args[2].name
        /\ AnsweredAt(tasks[p], "exists") < AnsweredAt(tasks[q], "hmset timeline")
        /\ AnsweredAt(tasks[q], "exists") < AnsweredAt(tasks[p], "hmset timeline")
        /\ AnsweredAt(tasks[p], "hmset timeline") < AnsweredAt(tasks[q], "hmset timeline")
        /\ StoredFields(db, mkKey(<<Str("timeline"), tasks[p].args[1]>>)).name
               = toWire(tasks[q].args[2].name)

(***************************************************************************)
(* Creation against a store that refuses commands.                         *)
(***************************************************************************)
\* the commands a creating call issues
CreationCommands(op) ==
    IF op = "createUser" THEN {"exists", "set username", "hmset user", "set email"}
    ELSE {"exists", "hmset names", "hmset timeline"}

\* the keys the call has written so far
WrittenBy(t) == IF t.op = "createUser" THEN createUserWritten(t) ELSE _createTimelineWritten(t)

\* the calls that wrote the username index of the payload of t
IndexWriters(t) ==
    {q \in TasksOf("createUser") :
        /\ "set username" \in Executed(tasks[q])
        /\ tasks[q].args[1].username = t.args[1].username}

\* C19: createUser issues its username index write, its record write and,
\* for a payload with an email, its email index write together, and
\* _createTimeline its name record write and its record write; when the
\* store refuses one of them the call fails with the error of the refusal,
\* the other writes stay issued and are executed, the call issues no delete,
\* and the store keeps every write that succeeded: the user record with the
\* payload, the username index with the id of a call that wrote it, and no
\* user record for a refused record write.
C19_RefusedWriteLeavesTheOthers ==
    \A p \in TasksOf("createUser") \cup TasksOf("createUserDiscussionsTimeline") :
        LET t == tasks[p]
        IN  /\ Refused(t) # {} => t.settled /\ t.err = StoreError /\ t.res = Undefined
            /\ Refused(t) \cup Executed(t) \subseteq CreationCommands(t.op)
            /\ WrittenBy(t) \subseteq DOMAIN db
            /\ t.op = "createUser" =>
                   LET recordKey == mkKey(<<Str("user"), t.uuid>>)
                       indexKey  == mkKey(<<Str("username"), t.args[1].username, Str("uid")>>)
                   IN  /\ "hmset user" \in Executed(t) =>
                              StoredFields(db, recordKey)
                                  = [f \in DOMAIN t.args[1] |-> toWire(t.args[1][f])]
                       /\ "hmset user" \notin Executed(t) => recordKey \notin DOMAIN db
                       /\ "set username" \in Executed(t) =>
                              db[indexKey].string \in {toWire(tasks[q].uuid) : q \in IndexWriters(t)}
                       /\ IndexWriters(t) = {} => indexKey \notin DOMAIN db
                       /\ "exists" \in Executed(t) /\ t.pending = <<>> =>
                              Refused(t) \cup Executed(t)
                                  = CreationCommands(t.op)
                                    \ (IF hasEmail(Field(t.args[1], "email")) THEN {}
                                       ELSE {"set email"})

\* a createUser call whose record write was refused has failed and left the
\* username index pointing to an id with no user record
C19_IndexWithoutRecord ==
    \E p \in TasksOf("createUser") :
        LET t == tasks[p]
        IN  /\ Finished(t) /\ t.err = StoreError
            /\ Refused(t) = {"hmset user"}
            /\ _getIndexValue(db, mkKey(<<Str("username"), t.args[1].username, Str("uid")>>))
                   = t.uuid
            /\ _getRecord(db, mkKey(<<Str("user"), t.uuid>>)) = Null

(***************************************************************************)
(* Intersections against a store that refuses commands.                    *)
(***************************************************************************)
\* the temporary key of the call holds what its intersect step stored
HoldsIntersection(t) ==
    db = _getPostsTimelinesIntersection(db, randomKeyOf(t), t.args[2], t.args[1])

\* C20: a getTimelinesIntersectionPostIds call whose read-back the store
\* refuses fails without issuing the delete, and one whose delete the store
\* refuses fails without answering the post ids it has read; either way the
\* temporary key stays in the store with the intersection the first step
\* put there.
C20_RefusedStepLeavesTemporaryKey ==
    \A p \in TasksOf("getTimelinesIntersectionPostIds") :
        LET t == tasks[p]
        IN  /\ Refused(t) # {} =>
                   /\ Finished(t) /\ t.err = StoreError /\ t.res = Undefined
                   /\ ~t.log[Len(t.log)].ok
            /\ "zrevrange" \in Refused(t) =>
                   /\ Executed(t) = {"zinterstore"} /\ Refused(t) = {"zrevrange"}
                   /\ HoldsIntersection(t)
            /\ "del" \in Refused(t) =>
                   /\ Executed(t) = {"zinterstore", "zrevrange"}
                   /\ t.postIds = Array(_getTimelinesIntersectionPosts(db, randomKeyOf(t)))
                   /\ HoldsIntersection(t)
            /\ Finished(t) /\ Refused(t) = {} =>
                   /\ t.res = t.postIds
                   /\ randomKeyOf(t) \notin DOMAIN db

\* one call failed at its read-back and another at its delete, and the
\* temporary keys of both are in the store
C20_TwoKeysLeft ==
    \E p \in Procs, q \in Procs :
        /\ {p, q} \subseteq TasksOf("getTimelinesIntersectionPostIds")
        /\ Refused(tasks[p]) = {"zrevrange"}
        /\ Refused(tasks[q]) = {"del"}
        /\ tasks[q].postIds # Array(<<>>)
        /\ {randomKeyOf(tasks[p]), randomKeyOf(tasks[q])} \subseteq DOMAIN db

(***************************************************************************)
(* Intersections of two clients at once.                                   *)
(***************************************************************************)
\* the calls whose temporary key is filled and not yet deleted
Holding == {p \in TasksOf("getTimelinesIntersectionPostIds") :
               "zinterstore" \in Executed(tasks[p]) /\ "del" \notin Executed(tasks[p])}

\* what the call answers when no other client is served during it
AloneAnswer(d, t) == getTimelinesIntersectionPostIds(d, t.uuid, t.args[1], t.args[2]).answer.res

\* C21: however the store interleaves the commands of the clients'
\* getTimelinesIntersectionPostIds calls, the temporary keys of two calls
\* differ and none is the post registry of a timeline; the store holds, next
\* to what it held before the calls, exactly the temporary keys of the calls
\* between their intersect and delete steps, each with the intersection of
\* its own call; and each call reads and answers the intersection of its own
\* two timelines, the answer it gives when it runs alone.
C21_CallsKeepToTheirOwnKey ==
    /\ \A p \in TasksOf("getTimelinesIntersectionPostIds") :
           LET t == tasks[p]
           IN  /\ \A q \in TasksOf("getTimelinesIntersectionPostIds") \ {p} :
                      randomKeyOf(t) # randomKeyOf(tasks[q])
               /\ \A timelineId \in TimelineIds : randomKeyOf(t) # postsKey(timelineId)
               /\ randomKeyOf(t) \notin DOMAIN pre
               /\ p \in Holding => HoldsIntersection(t)
               /\ "zrevrange" \in Executed(t) => t.postIds = AloneAnswer(pre, t)
               /\ Finished(t) => t.err = "" /\ t.res = AloneAnswer(pre, t)
    /\ DOMAIN db \ DOMAIN pre \subseteq {randomKeyOf(tasks[p]) : p \in Holding}
    /\ \A k \in DOMAIN pre : k \in DOMAIN db /\ db[k] = pre[k]

\* two calls on the same first timeline and different second timelines, with
\* different intersections, both answered, the intersect step of each
\* executed before the read-back of the other
C21_TwoCallsInterleaved ==
    \E p \in Procs, q \in Procs :
        /\ {p, q} \subseteq TasksOf("getTimelinesIntersectionPostIds")
        /\ Finished(tasks[p]) /\ Finished(tasks[q])
        /\ tasks[p].args[1] = tasks[q].args[1]
        /\ tasks[p].args[2] # tasks[q].args[2]
        /\ tasks[p].res # tasks[q].res
        /\ AnsweredAt(tasks[p], "zinterstore") < AnsweredAt(tasks[q], "zrevrange")
        /\ AnsweredAt(tasks[q], "zinterstore") < AnsweredAt(tasks[p], "zrevrange")

(***************************************************************************)
(* The order of an intersection.                                           *)
(***************************************************************************)
\* the greater of the scores of a post in the registries of two timelines
MaxOfScores(d, timelineId1, timelineId2, postId) ==
    Greater(ScoreIn(zsetAt(d, postsKey(timelineId1)), postId),
            ScoreIn(zsetAt(d, postsKey(timelineId2)), postId))

\* C22: getTimelinesIntersectionPostIds answers the posts that are in both
\* registries, each once, by ascending rank of the intersection: a post comes
\* before every post whose greater source score is higher (and, of two with
\* the same one, the post with the lesser id comes first); read backwards the
\* answer for a timeline with itself is what getTimelinePostsRange(T, 0, -1)
\* answers.
C22_IntersectionIsAscendingByMax ==
    (last.op = "getTimelinesIntersectionPostIds" /\ last.err = "") =>
        LET answer == last.res.array
            T1     == last.args[1]
            T2     == last.args[2]
            max(i) == MaxOfScores(pre, T1, T2, answer[i].str)
        IN  /\ ElementsOf(answer)
                   = {Str(m) : m \in Members(zsetAt(pre, postsKey(T1)))
                                     \cap Members(zsetAt(pre, postsKey(T2)))}
            /\ \A i \in 1..Len(answer), j \in 1..Len(answer) :
                   i < j => /\ answer[i] # answer[j]
                            /\ max(i) <= max(j)
                            /\ max(i) = max(j) => StringLess(answer[i].str, answer[j].str)
            /\ T1 = T2 => Reverse(answer) = getTimelinePostsRange(pre, T1, 0, -1)

\* an intersection of two posts answered with the second id first: the two
\* have the same score in the first timeline, where the first id ranks
\* lower, and the first id has the higher score in the second timeline
C22_OrderedByGreaterScore ==
    /\ last.op = "getTimelinesIntersectionPostIds" /\ last.err = ""
    /\ last.res = Array(<<Str("p2"), Str("p1")>>)
    /\ ScoreIn(zsetAt(pre, postsKey(last.args[1])), "p2")
           = ScoreIn(zsetAt(pre, postsKey(last.args[1])), "p1")
    /\ ScoreIn(zsetAt(pre, postsKey(last.args[2])), "p2")
           < ScoreIn(zsetAt(pre, postsKey(last.args[2])), "p1")

(***************************************************************************)
(* The letter case of index keys.                                          *)
(***************************************************************************)
StartsWith(s, prefix) == Len(s) >= Len(prefix) /\ SubSeq(s, 1, Len(prefix)) = prefix

UsernameIndexKeys(d) == {k \in DOMAIN d : StartsWith(k, "username:")}

EmailIndexKeys(d) == {k \in DOMAIN d : StartsWith(k, "email:")}

\* C23: every key of the username index and of the email index is composed
\* from a lower-cased value.
C23_IndexKeysAreLowerCase ==
    \A k \in UsernameIndexKeys(db) \cup EmailIndexKeys(db) : k = LowerString(k)

\* the keys of the email index are composed from a lower-cased value
EmailIndexKeysAreLowerCase ==
    \A k \in EmailIndexKeys(db) : k = LowerString(k)

\* the key of the username index that a successful createUser wrote is
\* composed from the username as given
UsernameIndexKeyIsAsGiven ==
    Succeeded("createUser") =>
        /\ usernameKey(last.args[1].username) \in DOMAIN db
        /\ db[usernameKey(last.args[1].username)].string = toWire(last.uuid)

\* the account a lookup answered
AnsweredId(answer) ==
    IF answer.err = "" /\ answer.res # Null THEN answer.res.attrs.id ELSE Null

\* C24: right after a successful createUser with username u and email e,
\* getFeedOwnerByUsername answers the created account for every username
\* equal to u letter case apart, u itself included, and getUserByEmail
\* answers it, when it is a person, for every email equal to e letter case
\* apart.
C24_LookupsIgnoreLetterCase ==
    Succeeded("createUser") =>
        /\ \A username \in Usernames :
               toLowerCase(username) = toLowerCase(last.args[1].username) =>
                   AnsweredId(getFeedOwnerByUsername(db, username)) = last.uuid
        /\ \A email \in Emails \cup {toLowerCase(e) : e \in Emails} :
               (hasEmail(Field(last.args[1], "email"))
                /\ last.args[1].type = Str("user")
                /\ toLowerCase(email) = toLowerCase(last.args[1].email)) =>
                   AnsweredId(getUserByEmail(db, email)) = last.uuid

\* right after a successful createUser the lookups by email answer the created
\* person whatever the letter case, and the lookup by username answers it
\* for the usernames whose lower-case form is the username as given
LookupsLowerCaseTheirArgument ==
    Succeeded("createUser") =>
        /\ \A username \in Usernames :
               toLowerCase(username) = last.args[1].username =>
                   AnsweredId(getFeedOwnerByUsername(db, username)) = last.uuid
        /\ \A email \in Emails \cup {toLowerCase(e) : e \in Emails} :
               (hasEmail(Field(last.args[1], "email"))
                /\ last.args[1].type = Str("user")
                /\ toLowerCase(email) = toLowerCase(last.args[1].email)) =>
                   AnsweredId(getUserByEmail(db, email)) = last.uuid

(***************************************************************************)
(* Presence tests.                                                         *)
(***************************************************************************)
PresenceTests == {"hasUserLikedPost", "isPostPresentInTimeline", "isSubscriptionRequestPresent"}

\* the registry a presence test reads
TestedKey ==
    CASE last.op = "hasUserLikedPost" -> likesKey(last.args[2])
      [] last.op = "isPostPresentInTimeline" -> postsKey(last.args[1])
      [] last.op = "isSubscriptionRequestPresent" -> requestsKey(last.args[2])

\* the member a presence test asks for
TestedMember ==
    CASE last.op = "hasUserLikedPost" -> last.args[1]
      [] last.op = "isPostPresentInTimeline" -> last.args[2]
      [] last.op = "isSubscriptionRequestPresent" -> last.args[1]

\* the member is in the registry when the test is made
Entered == TestedMember.str \in Members(zsetAt(pre, TestedKey))

EnteredScore == ScoreIn(zsetAt(pre, TestedKey), TestedMember.str)

\* the member is counted by the registry's count and listed by its range read
CountedAndListed ==
    /\ _getSortedSetElementsCount(pre, TestedKey) >= 1
    /\ TestedMember \in ElementsOf(_getAllSortedSetElements(pre, TestedKey))

\* C25 as stated: a presence test answers a falsy value for a member that is
\* in the registry with score 0 or a negative score, as it does for a member
\* that was never added.
C25_NonPositiveScoreIsAbsent ==
    (last.op \in PresenceTests /\ Entered /\ EnteredScore <= 0) => ~truthy(last.res)

\* C25: a presence test answers true for a member that is in the registry
\* with score 0 or a positive score, false for a member that is in it with a
\* negative score, and null for a member that is not in it; the member with
\* the negative score is counted by the registry's count and listed by its
\* range read all the same.
C25_NegativeScoreIsAbsent ==
    last.op \in PresenceTests =>
        /\ last.err = ""
        /\ ~Entered => last.res = Null
        /\ Entered =>
               /\ last.res = Bool(EnteredScore >= 0)
               /\ CountedAndListed

\* a presence test answered true for a member that is in the registry with
\* score 0
C25_ZeroScoreIsPresent ==
    /\ last.op \in PresenceTests
    /\ Entered
    /\ EnteredScore = 0
    /\ last.res = Bool(TRUE)

(***************************************************************************)
(* Batch lookups of accounts.                                              *)
(***************************************************************************)
BatchLookups == {"getFeedOwnersByIds", "getUsersByIds"}

\* the ids of the batch lookup in last that have no record, and those that
\* have the record of a group
IdsWithoutRecord ==
    {i \in 1..Len(last.args[1]) : userKey(last.args[1][i]) \notin DOMAIN pre}

IdsOfGroups ==
    {i \in 1..Len(last.args[1]) \ IdsWithoutRecord :
        pre[userKey(last.args[1][i])].hash["type"] = "group"}

\* C26: getFeedOwnersByIds and getUsersByIds answer one entry per id at the
\* position of the id and raise no error because an id has no record;
\* getUsersByIds raises the variant error only when an id is that of a group.
C26_MissingIdIsNoError ==
    last.op \in BatchLookups =>
        IF last.op = "getUsersByIds" /\ IdsOfGroups # {}
        THEN last.err = "Expected User, got Group"
        ELSE /\ last.err = ""
             /\ Len(last.res.array) = Len(last.args[1])

\* a batch lookup all of whose ids have records answers one object per id at
\* the position of the id, unless getUsersByIds meets a group; a batch lookup
\* with an id without record raises the error of reading the type of null
BatchOfKnownIds ==
    last.op \in BatchLookups =>
        IF IdsWithoutRecord # {} THEN last.err = NullTypeError
        ELSE IF last.op = "getUsersByIds" /\ IdsOfGroups # {}
        THEN last.err = "Expected User, got Group"
        ELSE /\ last.err = ""
             /\ Len(last.res.array) = Len(last.args[1])
             /\ \A i \in 1..Len(last.args[1]) :
                    /\ last.res.array[i].attrs.id = last.args[1][i]
                    /\ last.res.array[i].class = IF i \in IdsOfGroups THEN "Group" ELSE "User"

(***************************************************************************)
(* Counters and leaderboards.                                              *)
(***************************************************************************)
\* the counter of an account in store d, 0 when it has none
CounterOf(d, userId, property) ==
    IF property.str \in DOMAIN StoredFields(d, statsKey(userId))
    THEN toInteger(d[statsKey(userId)].hash[property.str])
    ELSE 0

\* the score of an account in a leaderboard of store d, 0 when it has none
BoardScoreOf(d, userId, property) ==
    IF userId.str \in Members(zsetAt(d, leaderboardKey(property)))
    THEN ScoreIn(zsetAt(d, leaderboardKey(property)), userId.str)
    ELSE 0

\* stores d and e hold the same at every key but key
SameBut(d, e, key) ==
    /\ DOMAIN d \ {key} = DOMAIN e \ {key}
    /\ \A k \in DOMAIN d \ {key} : d[k] = e[k]

\* C27: changeUserStatsValue(u, field, d) adds d to that field of the stats
\* record of u and changes no other field and no other key, so none of the
\* five leaderboards; changeUserStats(u, metric, d) adds d to the score of u
\* in the leaderboard of the metric and changes no other score and no other
\* key, so neither the stats record of u nor another leaderboard.
C27_CounterAndLeaderboardApart ==
    /\ last.op = "changeUserStatsValue" =>
           LET userId   == last.args[1]
               property == last.args[2]
           IN  /\ last.err = ""
               /\ CounterOf(db, userId, property)
                      = CounterOf(pre, userId, property) + last.args[3]
               /\ \A other \in Metrics \ {property} :
                      Field(StoredFields(db, statsKey(userId)), other.str)
                          = Field(StoredFields(pre, statsKey(userId)), other.str)
               /\ SameBut(db, pre, statsKey(userId))
               /\ \A metric \in Metrics :
                      zsetAt(db, leaderboardKey(metric)) = zsetAt(pre, leaderboardKey(metric))
    /\ last.op = "changeUserStats" =>
           LET userId   == last.args[1]
               property == last.args[2]
           IN  /\ last.err = ""
               /\ userId.str \in Members(zsetAt(db, leaderboardKey(property)))
               /\ BoardScoreOf(db, userId, property)
                      = BoardScoreOf(pre, userId, property) + last.args[3]
               /\ {e \in zsetAt(db, leaderboardKey(property)) : e[1] # userId.str}
                      = {e \in zsetAt(pre, leaderboardKey(property)) : e[1] # userId.str}
               /\ SameBut(db, pre, leaderboardKey(property))

\* after a counter change the account has a counter and a leaderboard score
\* of the same name that differ
C27_CounterAndScoreDiffer ==
    /\ last.op = "changeUserStatsValue"
    /\ statsKey(last.args[1]) \in DOMAIN db
    /\ last.args[1].str \in Members(zsetAt(db, leaderboardKey(last.args[2])))
    /\ CounterOf(db, last.args[1], last.args[2]) # BoardScoreOf(db, last.args[1], last.args[2])

(***************************************************************************)
(* The deletion of a post.                                                 *)
(***************************************************************************)
postKey(postId) == mkKey(<<Str("post"), postId>>)

\* the deletions of what is kept about a post, each with the key it is for
OwnKey ==
    CASE last.op = "deletePostLikes" -> likesKey(last.args[1])
      [] last.op = "deletePostComments" -> commentsKey(last.args[1])
      [] last.op = "deletePostUsagesInTimelineIndex" -> usagesKey(last.args[1])
      [] last.op = "deletePostPostedTo" -> postedToKey(last.args[1])

\* C28: deletePost(P) removes the record of P and changes no other key: the
\* likes, the comment log, the attachment log, the used-in-timelines set, the
\* posted-to set of P and every timeline's post registry are as they were,
\* and getPostById(P) then answers null; deletePostLikes, deletePostComments,
\* deletePostUsagesInTimelineIndex and deletePostPostedTo each remove their
\* own key and no other, and removePostFromTimeline takes P out of that
\* timeline's registry and changes nothing else.
C28_DeletePostRemovesTheRecordOnly ==
    /\ last.op = "deletePost" =>
           /\ postKey(last.args[1]) \notin DOMAIN db
           /\ SameBut(db, pre, postKey(last.args[1]))
           /\ getPostById(db, last.args[1]) = Ok(Null)
           /\ getTimelinePostsRange(db, TestedTimeline, 0, -1)
                  = getTimelinePostsRange(pre, TestedTimeline, 0, -1)
    /\ last.op \in {"deletePostLikes", "deletePostComments",
                    "deletePostUsagesInTimelineIndex", "deletePostPostedTo"} =>
           /\ OwnKey \notin DOMAIN db
           /\ SameBut(db, pre, OwnKey)
    /\ last.op = "removePostFromTimeline" =>
           /\ zsetAt(db, postsKey(last.args[1]))
                  = {e \in zsetAt(pre, postsKey(last.args[1])) : e[1] # last.args[2].str}
           /\ SameBut(db, pre, postsKey(last.args[1]))

\* deletePost removed the record of a post that has likes, comments,
\* attachments, both sets and a place in a timeline: all of them are still
\* there, the timeline lists the post and getPostById answers null
C28_DeletedPostStillListed ==
    /\ last.op = "deletePost"
    /\ postKey(TestedPost) \in DOMAIN pre
    /\ getPostById(db, TestedPost) = Ok(Null)
    /\ TestedPost \in ElementsOf(getTimelinePostsRange(db, TestedTimeline, 0, -1))
    /\ hasUserLikedPost(db, FollowedUser, TestedPost) = Bool(TRUE)
    /\ getPostCommentsCount(db, TestedPost) = 1
    /\ getPostAttachments(db, TestedPost) # <<>>
    /\ getPostUsagesInTimelines(db, TestedPost) # {}
    /\ getPostPostedToIds(db, TestedPost) # {}

(***************************************************************************)
(* The names of the timelines of an account.                               *)
(***************************************************************************)
TimelineCreations == {"createTimeline", "createUserDiscussionsTimeline"}

\* the account and the payload of the creation in last
CreatedFor == IF last.op = "createTimeline" THEN last.args[1].userId ELSE last.args[1]

CreatedWith == IF last.op = "createTimeline" THEN last.args[1] ELSE last.args[2]

\* the mapping getUserTimelinesIds answers, empty for an account without one
NamesOf(d, userId) ==
    IF getUserTimelinesIds(d, userId) = Null THEN EmptyObject ELSE getUserTimelinesIds(d, userId)

\* C29: a successful createTimeline or createUserDiscussionsTimeline for an
\* account maps the name it was given to the id it answers and leaves the ids
\* of the account's other names as they were, so that after any run of
\* creations getUserTimelinesIds maps each name used to the id of the latest
\* successful creation with it; and every id in a mapping has a timeline
\* record.
C29_NamesMapToLatestId ==
    /\ \A userId \in Ids :
           \A name \in DOMAIN NamesOf(db, userId) :
               existsTimeline(db, NamesOf(db, userId)[name]) # 0
    /\ (last.op \in TimelineCreations /\ last.err = "") =>
           LET before == NamesOf(pre, CreatedFor)
               after  == NamesOf(db, CreatedFor)
               name   == CreatedWith.name.str
           IN  /\ DOMAIN after = DOMAIN before \cup {name}
               /\ after[name] = last.res
               /\ \A other \in DOMAIN before \ {name} : after[other] = before[other]
               /\ existsTimeline(db, last.res) # 0

\* a creation gave an account that had a timeline of one name a timeline of
\* the other name, and the mapping holds both
C29_SecondNameAdded ==
    /\ last.op \in TimelineCreations /\ last.err = ""
    /\ DOMAIN NamesOf(pre, CreatedFor) = {"Discussions"}
    /\ DOMAIN NamesOf(db, CreatedFor) = {"Discussions", "Posts"}
    /\ NamesOf(db, CreatedFor)["Discussions"] # NamesOf(db, CreatedFor)["Posts"]

(***************************************************************************)
(* Subscription requests and pending requests.                             *)
(***************************************************************************)
RequestCreations == {"createUserSubscriptionRequest", "createUserSubscriptionPendingRequest"}

RequestDeletions == {"deleteUserSubscriptionRequest", "deleteUserSubscriptionPendingRequest"}

\* the registry and the member that the create or delete in last is about:
\* createUserSubscriptionRequest(A, t, B) and deleteUserSubscriptionRequest(B, A)
\* are about A in the requests of B, createUserSubscriptionPendingRequest(A, t, B)
\* and deleteUserSubscriptionPendingRequest(B, A) about B in the pending
\* requests of A
EntryKey ==
    CASE last.op = "createUserSubscriptionRequest" -> requestsKey(last.args[3])
      [] last.op = "deleteUserSubscriptionRequest" -> requestsKey(last.args[1])
      [] last.op = "createUserSubscriptionPendingRequest" -> pendingKey(last.args[1])
      [] last.op = "deleteUserSubscriptionPendingRequest" -> pendingKey(last.args[2])

EntryMember ==
    CASE last.op = "createUserSubscriptionRequest" -> last.args[1]
      [] last.op = "deleteUserSubscriptionRequest" -> last.args[2]
      [] last.op = "createUserSubscriptionPendingRequest" -> last.args[3]
      [] last.op = "deleteUserSubscriptionPendingRequest" -> last.args[1]

\* the store after the delete that goes with the create in last
DeletedAgain ==
    IF last.op = "createUserSubscriptionRequest"
    THEN deleteUserSubscriptionRequest(db, last.args[3], last.args[1])
    ELSE deleteUserSubscriptionPendingRequest(db, last.args[3], last.args[1])

WithoutEntry(d, key, member) == {e \in zsetAt(d, key) : e[1] # member.str}

\* C30 as stated: each create followed by its delete restores the registry
\* contents from before the create.
C30_CreateThenDeleteRestores ==
    last.op \in RequestCreations => DeletedAgain = pre

\* C30: createUserSubscriptionRequest(A, t, B) enters A with time t in the
\* requests of B, so that isSubscriptionRequestPresent(A, B) is true and
\* getUserSubscriptionRequestsIds(B) contains A, and
\* createUserSubscriptionPendingRequest(A, t, B) enters B in the pending
\* requests of A, so that getUserSubscriptionPendingRequestsIds(A) contains B;
\* deleteUserSubscriptionRequest(B, A) and
\* deleteUserSubscriptionPendingRequest(B, A) remove exactly that entry; no
\* call changes another entry or another key; and a create followed by its
\* delete leaves the store as it was before the create when the entry was
\* not in the registry then, and without the entry when it was.
C30_PairsAddressOneEntry ==
    /\ last.op \in RequestCreations =>
           /\ zsetAt(db, EntryKey)
                  = WithoutEntry(pre, EntryKey, EntryMember) \cup {<<EntryMember.str, last.args[2]>>}
           /\ SameBut(db, pre, EntryKey)
           /\ zsetAt(DeletedAgain, EntryKey) = WithoutEntry(pre, EntryKey, EntryMember)
           /\ SameBut(DeletedAgain, pre, EntryKey)
           /\ EntryMember.str \notin Members(zsetAt(pre, EntryKey)) => DeletedAgain = pre
    /\ last.op = "createUserSubscriptionRequest" =>
           /\ isSubscriptionRequestPresent(db, last.args[1], last.args[3]) = Bool(TRUE)
           /\ last.args[1] \in ElementsOf(getUserSubscriptionRequestsIds(db, last.args[3]))
    /\ last.op = "createUserSubscriptionPendingRequest" =>
           last.args[3] \in ElementsOf(getUserSubscriptionPendingRequestsIds(db, last.args[1]))
    /\ last.op \in RequestDeletions =>
           /\ zsetAt(db, EntryKey) = WithoutEntry(pre, EntryKey, EntryMember)
           /\ SameBut(db, pre, EntryKey)

\* deleteUserSubscriptionRequest(B, A) removed the request of A from the
\* requests of B, A another account than B, and left the request of B to
\* itself there
C30_RequestOfOtherRemoved ==
    /\ last.op = "deleteUserSubscriptionRequest"
    /\ last.args[1] # last.args[2]
    /\ Members(zsetAt(pre, requestsKey(last.args[1]))) = {last.args[1].str, last.args[2].str}
    /\ Members(zsetAt(db, requestsKey(last.args[1]))) = {last.args[1].str}
    /\ isSubscriptionRequestPresent(pre, last.args[2], last.args[1]) = Bool(TRUE)
    /\ isSubscriptionRequestPresent(db, last.args[2], last.args[1]) = Null

(***************************************************************************)
(* The key composer on its own.                                            *)
(***************************************************************************)
\* the segment list given to the mkKey in last
ComposedFrom == last.args[1].array

HoldsDelimiter(v) == \E i \in 1..Len(v.str) : SubSeq(v.str, i, i) = ":"

\* a list as the adapter gives it, an entity kind first, with no segment
\* that holds the delimiter
Plain(keys) == Len(keys) > 0 /\ \A i \in 1..Len(keys) : ~HoldsDelimiter(keys[i])

\* C31: two different lists of string segments (of different length or
\* differing in some segment) never compose to the same key, whatever the
\* segments hold, the delimiter ':' included.
C31_mkKeyIsInjective ==
    last.op = "mkKey" =>
        \A other \in SegmentLists : other # ComposedFrom => Str(mkKey(other)) # last.res

\* what holds: two different lists, neither empty, of segments without the
\* delimiter never compose to the same key
PlainListsComposeApart ==
    (last.op = "mkKey" /\ Plain(ComposedFrom)) =>
        \A other \in SegmentLists :
            (Plain(other) /\ other # ComposedFrom) => Str(mkKey(other)) # last.res

\* the key of a primary record whose id holds the delimiter is the key of
\* another id's sub-index
C31_RecordKeyIsSubIndexKey ==
    /\ last.op = "mkKey"
    /\ ComposedFrom = <<Str("user"), Str("i1:timelines")>>
    /\ last.res = Str(mkKey(<<Str("user"), Str("i1"), Str("timelines")>>))

====
